---------------------------- MODULE Spec2Model ----------------------------
(***************************************************************************)
(* Verification model of the cf-jacred-fdb edge worker: the middleware      *)
(* pipeline (src/unnamed/part_010), the generic proxy (middleware/          *)
(* upstream.ts), the config endpoint (middleware/conf.ts), the edge cache   *)
(* gateway (lib/fetching.ts), the asset manifest (lib/manifest.ts) and the  *)
(* media bridge (lib/torrserver.ts).                                        *)
(*                                                                          *)
(* JavaScript strings are sequences of one-character strings, so that       *)
(* startsWith, substring, trim, split and the regular expressions of the    *)
(* source are computed character by character.  The value null/undefined    *)
(* is the one-element sequence Null, which no character string equals.      *)
(***************************************************************************)
EXTENDS Integers, Sequences, FiniteSets, TLC

Null == <<"null">>

\* ------------------------------------------------------------- strings --
StartsWith(s, p) == Len(p) <= Len(s) /\ SubSeq(s, 1, Len(p)) = p

EndsWith(s, p) == Len(p) <= Len(s) /\ SubSeq(s, Len(s) - Len(p) + 1, Len(s)) = p

\* String.prototype.substring(n)
Substring(s, n) == SubSeq(s, n + 1, Len(s))

\* String.prototype.includes(sub)
Includes(s, sub) == \E i \in 0..(Len(s) - Len(sub)) : SubSeq(s, i + 1, i + Len(sub)) = sub

IsSpace(c) == c \in {" ", "\t"}

RECURSIVE TrimStart(_)
TrimStart(s) == IF s # << >> /\ IsSpace(Head(s)) THEN TrimStart(Tail(s)) ELSE s

RECURSIVE TrimEnd(_)
TrimEnd(s) ==
  IF s # << >> /\ IsSpace(s[Len(s)]) THEN TrimEnd(SubSeq(s, 1, Len(s) - 1)) ELSE s

\* String.prototype.trim()
Trim(s) == TrimEnd(TrimStart(s))

\* String.prototype.split(c) for a one-character separator
RECURSIVE Split(_, _)
Split(s, c) ==
  IF \E i \in 1..Len(s) : s[i] = c
    THEN LET i == CHOOSE j \in 1..Len(s) : s[j] = c /\ \A k \in 1..(j - 1) : s[k] # c
         IN  <<SubSeq(s, 1, i - 1)>> \o Split(SubSeq(s, i + 1, Len(s)), c)
    ELSE <<s>>

Range(xs) == {xs[i] : i \in 1..Len(xs)}

LowerOf(c) ==
  CASE c = "A" -> "a" [] c = "B" -> "b" [] c = "C" -> "c" [] c = "D" -> "d"
    [] c = "E" -> "e" [] c = "F" -> "f" [] c = "G" -> "g" [] c = "H" -> "h"
    [] c = "I" -> "i" [] c = "J" -> "j" [] c = "K" -> "k" [] c = "L" -> "l"
    [] c = "M" -> "m" [] c = "N" -> "n" [] c = "O" -> "o" [] c = "P" -> "p"
    [] c = "Q" -> "q" [] c = "R" -> "r" [] c = "S" -> "s" [] c = "T" -> "t"
    [] c = "U" -> "u" [] c = "V" -> "v" [] c = "W" -> "w" [] c = "X" -> "x"
    [] c = "Y" -> "y" [] c = "Z" -> "z"
    [] OTHER -> c

\* String.prototype.toLowerCase() over ASCII
ToLower(s) == [i \in 1..Len(s) |-> LowerOf(s[i])]

Digits == {"0", "1", "2", "3", "4", "5", "6", "7", "8", "9"}

\* JavaScript truthiness of a string-or-null value
Truthy(v) == v # Null /\ v # << >>

\* a || b
OrElse(a, b) == IF Truthy(a) THEN a ELSE b

\* ------------------------------------------------------------ literals --
LOCAL_PREFIX == <<"/","a","p","i">>   \* '/api'
S_stats == <<"/","s","t","a","t","s">>   \* '/stats'
S_stats_sl == <<"/","s","t","a","t","s","/">>   \* '/stats/'
S_stats_html == <<"/","s","t","a","t","s",".","h","t","m","l">>   \* '/stats.html'
S_sync == <<"/","s","y","n","c">>   \* '/sync'
S_sync_sl == <<"/","s","y","n","c","/">>   \* '/sync/'
S_lastupdatedb == <<"/","l","a","s","t","u","p","d","a","t","e","d","b">>   \* '/lastupdatedb'
S_health == <<"/","h","e","a","l","t","h">>   \* '/health'
S_root == <<"/">>   \* '/'
S_index_html == <<"/","i","n","d","e","x",".","h","t","m","l">>   \* '/index.html'
S_favicon == <<"/","f","a","v","i","c","o","n",".","i","c","o">>   \* '/favicon.ico'
S_manifest_json == <<"/","m","a","n","i","f","e","s","t",".","j","s","o","n">>   \* '/manifest.json'
S_assets_sl == <<"/","a","s","s","e","t","s","/">>   \* '/assets/'
S_css_sl == <<"/","c","s","s","/">>   \* '/css/'
S_js_sl == <<"/","j","s","/">>   \* '/js/'
S_img_sl == <<"/","i","m","g","/">>   \* '/img/'
S_conf == <<"/","c","o","n","f">>   \* '/conf'
S_conf_sl == <<"/","c","o","n","f","/">>   \* '/conf/'
S_torrents == <<"/","t","o","r","r","e","n","t","s">>   \* '/torrents'
S_api_v1_conf == <<"/","a","p","i","/","v","1",".","0","/","c","o","n","f">>   \* '/api/v1.0/conf'
S_api_v1_torrents == <<"/","a","p","i","/","v","1",".","0","/","t","o","r","r","e","n","t","s">>   \* '/api/v1.0/torrents'
TORRSERVER_ADD_PATH == <<"/","a","p","i","/","t","o","r","r","s","e","r","v","e","r","/","a","d","d">>   \* '/api/torrserver/add'
TORRSERVER_TEST_PATH == <<"/","a","p","i","/","t","o","r","r","s","e","r","v","e","r","/","t","e","s","t">>   \* '/api/torrserver/test'
TORRSERVER_PREFIX == <<"/","a","p","i","/","t","o","r","r","s","e","r","v","e","r","/">>   \* '/api/torrserver/'
MAGNET_PREFIX == <<"m","a","g","n","e","t",":">>   \* 'magnet:'
S_api_conf == <<"/","a","p","i","/","c","o","n","f">>   \* '/api/conf'
S_api_torrents == <<"/","a","p","i","/","t","o","r","r","e","n","t","s">>   \* '/api/torrents'
S_api_stats_x == <<"/","a","p","i","/","s","t","a","t","s","/","x">>   \* '/api/stats/x'
S_api_v2_bar == <<"/","a","p","i","/","v","2","/","b","a","r">>   \* '/api/v2/bar'
S_api_foo_conf == <<"/","a","p","i","/","f","o","o","/","c","o","n","f">>   \* '/api/foo/conf'
S_api_bad_pct == <<"/","a","p","i","/","%","z","z">>   \* '/api/%zz'
S_api_torrserver_conf == <<"/","a","p","i","/","t","o","r","r","s","e","r","v","e","r","/","c","o","n","f">>   \* '/api/torrserver/conf'
S_healthz == <<"/","h","e","a","l","t","h","z">>   \* '/healthz'
S_health_live == <<"/","h","e","a","l","t","h","/","l","i","v","e">>   \* '/health/live'
S_stats_x == <<"/","s","t","a","t","s","/","x">>   \* '/stats/x'
S_css_app_js == <<"/","c","s","s","/","a","p","p",".","j","s">>   \* '/css/app.js'
S_css_app_hashed_js == <<"/","c","s","s","/","a","p","p",".","a","1","b","2","c","3","d","4",".","j","s">>   \* '/css/app.a1b2c3d4.js'
S_unknown == <<"/","u","n","k","n","o","w","n">>   \* '/unknown'
K_K1 == <<"K","1">>   \* 'K1'
K_K2 == <<"K","2">>   \* 'K2'
K_WRONG == <<"W","R","O","N","G">>   \* 'WRONG'
E_K1_K2 == <<"K","1",",","K","2">>   \* 'K1,K2'
E_spaced == <<" ","K","1"," ",","," ",",","K","2"," ">>   \* ' K1 , ,K2 '
E_comma == <<",">>   \* ','
E_blank == <<" "," ">>   \* '  '
V_foo == <<"f","o","o">>   \* 'foo'
V_1 == <<"1">>   \* '1'
T_abc_q == <<"\"","a","b","c","\"">>   \* '"abc"'
T_abc_weak == <<"W","/","\"","a","b","c","\"">>   \* 'W/"abc"'
T_abc_weak_lc == <<"w","/","\"","a","b","c","\"">>   \* 'w/"abc"'
T_abc_bare == <<"a","b","c">>   \* 'abc'
T_xyz_q == <<"\"","x","y","z","\"">>   \* '"xyz"'
T_star == <<"*">>   \* '*'
T_list == <<"\"","x","y","z","\"",","," ","W","/","\"","a","b","c","\"">>   \* '"xyz", W/"abc"'
T_abc_half == <<"\"","a","b","c">>   \* '"abc'
T_no_store_uc == <<"M","a","x","-","A","g","e","=","0",","," ","N","o","-","S","t","o","r","e">>   \* 'Max-Age=0, No-Store'
T_max_age0 == <<"m","a","x","-","a","g","e","=","0">>   \* 'max-age=0'
S_no_cache == <<"n","o","-","c","a","c","h","e">>   \* 'no-cache'
S_no_store == <<"n","o","-","s","t","o","r","e">>   \* 'no-store'
M_magnet_ok == <<"m","a","g","n","e","t",":","?","x","t","=","1">>   \* 'magnet:?xt=1'
M_magnet_bad == <<"h","t","t","p",":","/","/","x">>   \* 'http://x'
M_magnet_sp == <<" ","m","a","g","n","e","t",":","?","x","t","=","1"," ">>   \* ' magnet:?xt=1 '
U_ok == <<"h","t","t","p",":","/","/","t","s",":","8","0","9","0","/">>   \* 'http://ts:8090/'
U_bad == <<"n","o","t"," ","a"," ","u","r","l">>   \* 'not a url'
U_blank == <<" "," ">>   \* '  '
U_opaque == <<"l","o","c","a","l","h","o","s","t",":","8","0","9","0">>   \* 'localhost:8090'
C_user == <<"u">>   \* 'u'
C_pass == <<"p">>   \* 'p'

\* ---------------------------------------------------------- constants.ts --
DIRECT_PREFIXES == <<S_stats, S_stats_sl, S_sync, S_sync_sl, S_lastupdatedb, S_health>>

DIRECT_API_KEY_EXEMPT_PREFIXES == <<S_lastupdatedb, S_health>>

ALLOWED_METHODS == {"GET", "HEAD", "OPTIONS", "POST"}

STRIP_RESPONSE_HEADERS ==
  {"set-cookie", "transfer-encoding", "connection", "keep-alive", "te", "trailer", "upgrade"}

DEFAULT_UPSTREAM_TIMEOUT_MS == 30000

DEFAULT_TORRSERVER_TIMEOUT_MS == 15000

DEFAULT_CACHE_CONTROL_OK == "public, max-age=60, s-maxage=300"

DEFAULT_CACHE_CONTROL_ERROR == "no-cache, max-age=0"

isDirectPath(path) ==
  \E i \in 1..Len(DIRECT_PREFIXES) :
    path = DIRECT_PREFIXES[i] \/ StartsWith(path, DIRECT_PREFIXES[i])

isDirectApiKeyExempt(path) ==
  \E i \in 1..Len(DIRECT_API_KEY_EXEMPT_PREFIXES) :
    \/ path = DIRECT_API_KEY_EXEMPT_PREFIXES[i]
    \/ StartsWith(path, DIRECT_API_KEY_EXEMPT_PREFIXES[i] \o <<"/">>)

isStatsAssetRequest(path) == path = S_stats \/ path = S_stats_sl \/ path = S_stats_html

\* ------------------------------------------------------- URLSearchParams --
\* A query is the URL's list of [name, value] pairs: names are compared by
\* equality only and are strings, values are character sequences.
SearchHas(q, n) == \E i \in 1..Len(q) : q[i].name = n

SearchGet(q, n) ==
  IF SearchHas(q, n)
    THEN q[CHOOSE i \in 1..Len(q) : q[i].name = n /\ \A j \in 1..(i - 1) : q[j].name # n].value
    ELSE Null

SearchDelete(q, n) == SelectSeq(q, LAMBDA p : p.name # n)

\* -------------------------------------------------------------- apiKey.ts --
AllowedKeysMissingTrim(raw) == SelectSeq(Split(raw, ","), LAMBDA k : k # << >>)

AllowedKeys(raw) ==
  SelectSeq([i \in 1..Len(Split(raw, ",")) |-> Trim(Split(raw, ",")[i])], LAMBDA k : k # << >>)

parseApiKey(envApiKey, q) ==
  LET configuredKeysRaw == Trim(OrElse(envApiKey, << >>))
      keyEnforced == Len(configuredKeysRaw) > 0
      allowedKeys == AllowedKeys(configuredKeysRaw)
      suppliedKey == OrElse(SearchGet(q, "apikey"), SearchGet(q, "api_key"))
      keyValid == ~keyEnforced \/ (suppliedKey # Null /\ suppliedKey \in Range(allowedKeys))
  IN  [keyEnforced |-> keyEnforced, suppliedKey |-> suppliedKey,
       keyValid |-> keyValid, allowedKeys |-> allowedKeys]

stripApiKeyParamsOnlyFirstSpelling(q) ==
  IF SearchHas(q, "apikey")
    THEN [query |-> SearchDelete(q, "apikey"), removed |-> TRUE]
    ELSE IF SearchHas(q, "api_key")
      THEN [query |-> SearchDelete(q, "api_key"), removed |-> TRUE]
      ELSE [query |-> q, removed |-> FALSE]

\* Mutates the URL's query; returns the resulting query and the flag.
stripApiKeyParams(q) ==
  LET q1 == IF SearchHas(q, "apikey") THEN SearchDelete(q, "apikey") ELSE q
      q2 == IF SearchHas(q1, "api_key") THEN SearchDelete(q1, "api_key") ELSE q1
  IN  [query |-> q2, removed |-> SearchHas(q, "apikey") \/ SearchHas(q1, "api_key")]

\* ------------------------------------------------------------- routing.ts --
\* A rule list whose search rule matches the exact path only
mapUpstreamPathExactTorrents(pathname) ==
  LET after == Substring(pathname, Len(LOCAL_PREFIX))
  IN  IF after = S_conf \/ after = S_conf_sl THEN S_api_v1_conf
      ELSE IF after = S_torrents THEN S_api_v1_torrents
      ELSE IF after = S_stats \/ after = S_stats_sl THEN S_stats
      ELSE IF StartsWith(after, S_stats_sl) THEN after
      ELSE LOCAL_PREFIX \o after

mapUpstreamPath(pathname) ==
  LET after == Substring(pathname, Len(LOCAL_PREFIX))
  IN  IF after = S_conf \/ after = S_conf_sl THEN S_api_v1_conf
      ELSE IF StartsWith(after, S_torrents) THEN S_api_v1_torrents
      ELSE IF after = S_stats \/ after = S_stats_sl THEN S_stats
      ELSE IF StartsWith(after, S_stats_sl) THEN after
      ELSE IF Len(after) >= 3 /\ after[1] = "/" /\ after[2] = "v" /\ after[3] \in Digits
        THEN LOCAL_PREFIX \o after
      ELSE LOCAL_PREFIX \o after

\* A thrown error is represented by its name ("none" when nothing was thrown).
isAbortError(e) == e = "AbortError"

\* -------------------------------------------------------------- config.ts --
DigitVal(c) == CHOOSE n \in 0..9 : <<"0", "1", "2", "3", "4", "5", "6", "7", "8", "9">>[n + 1] = c

RECURSIVE DigitsPrefix(_)
DigitsPrefix(s) ==
  IF s # << >> /\ Head(s) \in Digits THEN <<Head(s)>> \o DigitsPrefix(Tail(s)) ELSE << >>

RECURSIVE DecimalValue(_)
DecimalValue(ds) ==
  IF ds = << >> THEN 0 ELSE 10 * DecimalValue(SubSeq(ds, 1, Len(ds) - 1)) + DigitVal(ds[Len(ds)])

\* parseInt(s, 10): [nan |-> TRUE] or [nan |-> FALSE, n |-> value]
parseInt(s) ==
  LET t == TrimStart(s)
      neg == t # << >> /\ Head(t) = "-"
      u == IF t # << >> /\ Head(t) \in {"-", "+"} THEN Tail(t) ELSE t
      ds == DigitsPrefix(u)
  IN  IF ds = << >> THEN [nan |-> TRUE, n |-> 0]
      ELSE [nan |-> FALSE, n |-> IF neg THEN 0 - DecimalValue(ds) ELSE DecimalValue(ds)]

\* parseInt(value || '', 10) || dflt
parseIntOr(value, dflt) ==
  LET r == parseInt(OrElse(value, << >>))
  IN  IF r.nan \/ r.n = 0 THEN dflt ELSE r.n

resolveConfig(e) ==
  [upstreamTimeoutMs |-> parseIntOr(e.UPSTREAM_TIMEOUT_MS, DEFAULT_UPSTREAM_TIMEOUT_MS),
   torrTimeoutMs |-> parseIntOr(e.TORRSERVER_TIMEOUT_MS, DEFAULT_TORRSERVER_TIMEOUT_MS)]

\* -------------------------------------------------------------- assets.ts --
HexLower == Digits \cup {"a", "b", "c", "d", "e", "f"}

HexAny == HexLower \cup {"A", "B", "C", "D", "E", "F"}

LettersLower ==
  {"a", "b", "c", "d", "e", "f", "g", "h", "i", "j", "k", "l", "m",
   "n", "o", "p", "q", "r", "s", "t", "u", "v", "w", "x", "y", "z"}

\* HASH_RE = /[.-]([a-f0-9]{8,})[.]/i, tested on the lower-cased path
HASH_RE(s) ==
  \E i \in 1..Len(s) : \E j \in (i + 9)..Len(s) :
    /\ s[i] \in {".", "-"}
    /\ s[j] = "."
    /\ \A k \in (i + 1)..(j - 1) : s[k] \in HexAny

S_dot_html == <<".", "h", "t", "m", "l">>

S_dot_css == <<".", "c", "s", "s">>

S_dot_js == <<".", "j", "s">>

MEDIA_EXTS ==
  {<<".", "p", "n", "g">>, <<".", "j", "p", "g">>, <<".", "j", "p", "e", "g">>,
   <<".", "g", "i", "f">>, <<".", "w", "e", "b", "p">>, <<".", "a", "v", "i", "f">>,
   <<".", "s", "v", "g">>, <<".", "i", "c", "o">>, <<".", "w", "o", "f", "f">>,
   <<".", "w", "o", "f", "f", "2">>, <<".", "t", "t", "f">>}

\* A policy that tests the content hash before the .html rule
assetCacheControlHashFirst(pathname) ==
  LET lower == ToLower(pathname)
  IN  IF HASH_RE(lower) THEN "public, max-age=31536000, immutable"
      ELSE IF EndsWith(lower, S_dot_html) THEN "no-cache, must-revalidate"
      ELSE IF EndsWith(lower, S_dot_css) \/ EndsWith(lower, S_dot_js) THEN "public, max-age=3600"
      ELSE IF \E x \in MEDIA_EXTS : EndsWith(lower, x) THEN "public, max-age=604800"
      ELSE "public, max-age=300"

assetCacheControl(pathname) ==
  LET lower == ToLower(pathname)
      hashed == HASH_RE(lower)
  IN  IF EndsWith(lower, S_dot_html) THEN "no-cache, must-revalidate"
      ELSE IF hashed THEN "public, max-age=31536000, immutable"
      ELSE IF EndsWith(lower, S_dot_css) \/ EndsWith(lower, S_dot_js) THEN "public, max-age=3600"
      ELSE IF \E x \in MEDIA_EXTS : EndsWith(lower, x) THEN "public, max-age=604800"
      ELSE "public, max-age=300"

\* ------------------------------------------------------------ manifest.ts --
\* /[.-][a-f0-9]{8,}\.[a-z0-9]+$/i
LooksHashed(s) ==
  \E i \in 1..Len(s) : \E j \in (i + 9)..(Len(s) - 1) :
    /\ s[i] \in {".", "-"}
    /\ s[j] = "."
    /\ \A k \in (i + 1)..(j - 1) : s[k] \in HexAny
    /\ \A k \in (j + 1)..Len(s) : LowerOf(s[k]) \in (LettersLower \cup Digits)

\* The manifest maps un-hashed relative paths to hashed ones; a map is a set
\* of [from, to] pairs with distinct from.
ManifestLookup(map, key) ==
  IF \E e \in map : e.from = key THEN (CHOOSE e \in map : e.from = key).to ELSE Null

\* The part of resolveHashedPath after the manifest is loaded.
LookupHashed(map, pathname) ==
  LET key == IF StartsWith(pathname, <<"/">>) THEN Substring(pathname, 1) ELSE pathname
      hashed == ManifestLookup(map, key)
  IN  IF ~Truthy(hashed) THEN pathname
      ELSE IF StartsWith(hashed, <<"/">>) THEN hashed ELSE <<"/">> \o hashed

\* ------------------------------------------------------------------ state --
VARIABLES
  env,       \* the worker's environment bindings (fixed for the process lifetime)
  cache,     \* caches.default: the set of stored entries, at most one per key
  state,     \* manifest.ts module state: [loaded, loading, map]
  ctx,       \* the RequestContext of the request being handled
  pc,        \* where the handler of that request is suspended
  resp,      \* the response returned for that request
  calls,     \* outbound calls made while handling that request
  sent,      \* the URL of the last fetch sent to the origin
  settled,   \* how the outbound fetch of that request ended: "none" while there is
             \* none or it is in flight, "response", or the name of the error thrown
  attempts,  \* the add operation's attempts list
  pending,   \* cache writes handed to ctx.waitUntil and not yet settled
  callers,   \* concurrent resolveHashedPath calls (manifest specification)
  urls       \* a pair of upstream URLs (cache-key specification)

vars == <<env, cache, state, ctx, pc, resp, calls, sent, settled, attempts, pending, callers, urls>>

\* -------------------------------------------------------- model bounds --
MaxQuery == 2

MaxCache == 1

MaxCallers == 3

\* ------------------------------------------------------------- records --
NoH == "<absent>"

NoUrl == [path |-> Null, query |-> << >>]

NoCalls == [origin |-> 0, media |-> 0, assets |-> 0, manifest |-> 0, cacheMatch |-> 0, cachePut |-> 0]

NoBody == [kind |-> "none", magnet |-> Null, url |-> Null, username |-> Null,
           password |-> Null, debug |-> FALSE]

NoRequest == [method |-> "GET", pathname |-> S_root, query |-> << >>, cacheControl |-> Null,
              ifNoneMatch |-> Null, debug |-> FALSE, body |-> NoBody]

NoCtx == [request |-> NoRequest, query |-> << >>, pathname |-> S_root,
          config |-> [upstreamTimeoutMs |-> 0, torrTimeoutMs |-> 0],
          apiKey |-> [keyEnforced |-> FALSE, suppliedKey |-> Null, keyValid |-> TRUE,
                      allowedKeys |-> << >>],
          isApi |-> FALSE, direct |-> FALSE, upstreamUrl |-> NoUrl, stage |-> "none"]

\* The fields of the media bridge's JSON result (torrserver.ts lines 258-268, 345-355)
NoMedia == [status |-> 0, ok |-> FALSE, authHint |-> "none", cloudflareAccess |-> FALSE,
            version |-> FALSE, raw |-> FALSE]

\* A response: status, the stage that returned it, the JSON envelope fields
\* of errors.ts, and the headers the model follows.
NoResp == [status |-> 0, by |-> "none", code |-> "none", messageKey |-> "none",
           source |-> "none", body |-> "none", timeoutMs |-> 0,
           cacheControl |-> NoH, etag |-> Null, vary |-> Null, cfCacheStatus |-> NoH,
           secure |-> FALSE, cors |-> FALSE, allow |-> FALSE, serverTiming |-> FALSE,
           xUpstreamUrl |-> NoUrl, other |-> {}, requireApiKey |-> FALSE,
           media |-> NoMedia, attempts |-> << >>]

\* errors.ts: json(data, status, extraHeaders)
json(status, body) ==
  [NoResp EXCEPT !.status = status, !.body = body, !.source = "local",
                 !.cacheControl = "no-store", !.cors = TRUE]

\* errors.ts: errorResponse(locale, code, messageOrKey, status, extra)
errorResponse(code, messageOrKey, status) ==
  [json(status, "error") EXCEPT !.code = code, !.messageKey = messageOrKey]

\* errors.ts: badRequest(locale, custom)
badRequest(custom) == errorResponse("bad_request", custom, 400)

\* errors.ts: methodNotAllowed(locale)
methodNotAllowed == [errorResponse("method_not_allowed", "method_not_allowed", 405) EXCEPT !.allow = TRUE]

\* An exception that no stage catches leaves the worker's fetch handler; the
\* runtime answers the caller with its own 500.
uncaughtException(name) ==
  [NoResp EXCEPT !.status = 500, !.code = "uncaught_exception", !.messageKey = name,
                 !.source = "runtime"]

\* security.ts: addStandardResponseHeaders(h)
addStandardResponseHeaders(r) ==
  [r EXCEPT !.secure = TRUE, !.cors = TRUE,
            !.cacheControl = IF r.cacheControl = NoH THEN "public, max-age=60" ELSE @]

\* ---------------------------------------------- worker entry (part_010) --
\* The RequestContext built at the top of fetch().
Context(e, r) ==
  LET isApi == r.pathname = LOCAL_PREFIX \/ StartsWith(r.pathname, LOCAL_PREFIX \o <<"/">>)
  IN  [request |-> r, query |-> r.query, pathname |-> r.pathname,
       config |-> resolveConfig(e),
       apiKey |-> parseApiKey(e.API_KEY, r.query),
       isApi |-> isApi, direct |-> ~isApi /\ isDirectPath(r.pathname),
       upstreamUrl |-> NoUrl, stage |-> "none"]

\* ----------------------------------------------- manifest.ts: load state --
ManifestFile ==
  {[from |-> Substring(S_css_app_js, 1), to |-> Substring(S_css_app_hashed_js, 1)]}

LoadOutcomes == {"ok", "notok", "badjson", "throw"}

\* load(): the check-and-set before the first await (lines 25-28, 30)
loadStartNoDedup(st) == [st EXCEPT !.loading = TRUE]

\* A load that raises the loaded flag before the manifest has arrived
loadStartMarksLoaded(st) == [st EXCEPT !.loaded = TRUE, !.loading = TRUE]

loadStart(st) == IF st.loaded \/ st.loading THEN st ELSE [st EXCEPT !.loading = TRUE]

\* Whether this call to load() issues the fetch of asset-manifest.json
loadFetchesAlways(st) == ~st.loaded

loadFetches(st) == ~st.loaded /\ ~st.loading

\* A load that leaves the manifest unloaded when the fetch fails
loadFinishRetriesAfterFailure(st, outcome) ==
  [loaded |-> outcome = "ok", loading |-> FALSE,
   map |-> IF outcome = "ok" THEN ManifestFile ELSE st.map]

\* load(): the continuation after the fetch settles (lines 31-43)
loadFinish(st, outcome) ==
  [loaded |-> TRUE, loading |-> FALSE,
   map |-> IF outcome = "ok" THEN ManifestFile ELSE st.map]

\* resolveHashedPath run without interleaving (one request at a time)
resolveHashedPath(st, pathname, outcome) ==
  IF LooksHashed(pathname) THEN [state |-> st, path |-> pathname, fetched |-> FALSE]
  ELSE LET st2 == IF ~st.loaded THEN loadFinish(loadStart(st), outcome) ELSE st
       IN  [state |-> st2, path |-> LookupHashed(st2.map, pathname), fetched |-> loadFetches(st)]

\* assets.ts: withAdjustedAssetCaching(pathname, resp)
withAdjustedAssetCaching(pathname, assetStatus) ==
  addStandardResponseHeaders(
    [NoResp EXCEPT !.status = assetStatus, !.source = "assets", !.body = "asset",
                   !.cacheControl = assetCacheControl(pathname)])

\* ------------------------------------------------- stage match predicates --
STATIC_ASSET_PATHS == {S_root, S_index_html, S_favicon, S_manifest_json}

STATIC_ASSET_PREFIXES == {S_assets_sl, S_css_sl, S_js_sl, S_img_sl}

\* statsAsset.ts line 8
statsAssetHandles(c) == isStatsAssetRequest(c.pathname)

\* staticAsset.ts lines 11-16
staticAssetHandles(c) ==
  /\ ~(c.isApi \/ c.direct)
  /\ \/ c.pathname \in STATIC_ASSET_PATHS
     \/ \E p \in STATIC_ASSET_PREFIXES : StartsWith(c.pathname, p)

\* A gate that answers preflights only
methodAndCorsHandlesOptionsOnly(c) == c.request.method = "OPTIONS"

\* part_009 lines 7-13
methodAndCorsHandles(c) ==
  c.request.method \notin ALLOWED_METHODS \/ c.request.method = "OPTIONS"

\* part_007 line 6, torrserver.ts lines 159 and 298
torrserverHandles(c) ==
  /\ StartsWith(c.pathname, TORRSERVER_PREFIX)
  /\ c.pathname = TORRSERVER_ADD_PATH \/ c.pathname = TORRSERVER_TEST_PATH

\* conf.ts line 49: ctx.isApi && /\/conf\/?$/.test(ctx.pathname)
confEndpointHandles(c) ==
  c.isApi /\ (EndsWith(c.pathname, S_conf) \/ EndsWith(c.pathname, S_conf_sl))

\* upstream.ts line 12
upstreamHandles(c) == c.isApi \/ c.direct

\* part_010 lines 48-62: the first stage of the pipeline that returns a response
Route(c) ==
  IF statsAssetHandles(c) THEN "statsAsset"
  ELSE IF staticAssetHandles(c) THEN "staticAsset"
  ELSE IF methodAndCorsHandles(c) THEN "methodAndCors"
  ELSE IF torrserverHandles(c) THEN "torrserver"
  ELSE IF confEndpointHandles(c) THEN "confEndpoint"
  ELSE IF upstreamHandles(c) THEN "upstream"
  ELSE "unhandled"

\* ----------------------------------------------------------- new URL(s) --
SchemeChars == LettersLower \cup Digits \cup {"+", "-", "."}

HasScheme(s) ==
  \E i \in 2..Len(s) :
    /\ s[i] = ":"
    /\ LowerOf(s[1]) \in LettersLower
    /\ \A k \in 2..(i - 1) : LowerOf(s[k]) \in SchemeChars

SchemeOf(s) == ToLower(SubSeq(s, 1, (CHOOSE i \in 2..Len(s) : s[i] = ":" /\ \A k \in 1..(i - 1) : s[k] # ":") - 1))

AfterScheme(s) == Substring(s, Len(SchemeOf(s)) + 1)

SpecialSchemes == {<<"h", "t", "t", "p">>, <<"h", "t", "t", "p", "s">>}

RECURSIVE SkipSlashes(_)
SkipSlashes(s) == IF s # << >> /\ Head(s) \in {"/", "\\"} THEN SkipSlashes(Tail(s)) ELSE s

HostOf(rest) ==
  LET r == SkipSlashes(rest)
  IN  IF \E i \in 1..Len(r) : r[i] = "/"
        THEN SubSeq(r, 1, (CHOOSE i \in 1..Len(r) : r[i] = "/" /\ \A k \in 1..(i - 1) : r[k] # "/") - 1)
        ELSE r

\* How the URL parser classifies an absolute-URL string given without a base:
\* "invalid" (new URL throws), "opaque" (a scheme followed by an opaque path:
\* it parses, and cannot serve as a base) or "hier" (scheme://host/path).
UrlKind(s) ==
  IF ~HasScheme(s) THEN "invalid"
  ELSE IF SchemeOf(s) \in SpecialSchemes
    THEN IF HostOf(AfterScheme(s)) = << >> \/ \E i \in 1..Len(HostOf(AfterScheme(s))) : IsSpace(HostOf(AfterScheme(s))[i])
           THEN "invalid" ELSE "hier"
  ELSE IF StartsWith(AfterScheme(s), <<"/">>) THEN "hier" ELSE "opaque"

\* torrserver.ts lines 92-100: the error thrown, or "none"
normalizeTorrServerUrlError(raw) ==
  LET trimmed == Trim(OrElse(raw, << >>))
      cut == IF EndsWith(trimmed, <<"/">>) THEN SubSeq(trimmed, 1, Len(trimmed) - 1) ELSE trimmed
  IN  IF trimmed = << >> THEN "missing_url"
      ELSE IF UrlKind(cut) = "invalid" THEN "invalid_url"
      ELSE "none"

normalizeTorrServerUrl(raw) ==
  LET trimmed == Trim(OrElse(raw, << >>))
  IN  IF EndsWith(trimmed, <<"/">>) THEN SubSeq(trimmed, 1, Len(trimmed) - 1) ELSE trimmed

\* new URL(path, base) throws when base has an opaque path
RelativeUrlThrows(base) == UrlKind(base) # "hier"

\* ------------------------------------------------------------ fetching.ts --
\* An upstream URL is [path, query].
buildCacheKeyKeepsBuster(request, upstreamUrl) ==
  [method |-> "GET", path |-> upstreamUrl.path,
   query |-> SearchDelete(SearchDelete(upstreamUrl.query, "apikey"), "api_key")]

buildCacheKey(request, upstreamUrl) ==
  [method |-> "GET", path |-> upstreamUrl.path,
   query |-> SearchDelete(SearchDelete(SearchDelete(upstreamUrl.query, "_"), "apikey"), "api_key")]

\* /no-cache|no-store/i.test(cc)
NoCacheRe(cc) == Includes(ToLower(cc), S_no_cache) \/ Includes(ToLower(cc), S_no_store)

\* A gateway that ignores the request's Cache-Control
cacheBypassMethodOnly(request) == request.method # "GET"

\* cachedFetch lines 53 and 57-58: the request goes straight to fetchUpstream
cacheBypass(request) ==
  request.method # "GET" \/ NoCacheRe(OrElse(request.cacheControl, << >>))

\* cache.match(cacheKey): the stored entry, if the platform still holds one
cacheMatch(c, key) == {e \in c : e.key = key}

\* t.replace(/^W\//i, '').replace(/^"|"$/g, '')
normalizeEtagKeepsWeak(t) ==
  LET b == IF t # << >> /\ Head(t) = "\"" THEN Tail(t) ELSE t
  IN  IF b # << >> /\ b[Len(b)] = "\"" THEN SubSeq(b, 1, Len(b) - 1) ELSE b

normalizeEtag(t) ==
  LET a == IF Len(t) >= 2 /\ LowerOf(t[1]) = "w" /\ t[2] = "/" THEN Substring(t, 2) ELSE t
      b == IF a # << >> /\ Head(a) = "\"" THEN Tail(a) ELSE a
  IN  IF b # << >> /\ b[Len(b)] = "\"" THEN SubSeq(b, 1, Len(b) - 1) ELSE b

\* header.split(',').map((s) => s.trim()).filter(Boolean)
HeaderTokens(v) ==
  SelectSeq([i \in 1..Len(Split(v, ",")) |-> Trim(Split(v, ",")[i])], LAMBDA t : t # << >>)

\* lines 67-71: the normalized tokens of If-None-Match
inmTokens(inm) == [i \in 1..Len(HeaderTokens(inm)) |-> normalizeEtag(HeaderTokens(inm)[i])]

S_Accept == <<"A", "c", "c", "e", "p", "t">>

S_If_None_Match == <<"I", "f", "-", "N", "o", "n", "e", "-", "M", "a", "t", "c", "h">>

\* new Set(tokens), then add: insertion order kept, no duplicates
RECURSIVE Dedup(_)
Dedup(xs) ==
  IF xs = << >> THEN << >>
  ELSE LET init == Dedup(SubSeq(xs, 1, Len(xs) - 1))
       IN  IF xs[Len(xs)] \in Range(init) THEN init ELSE Append(init, xs[Len(xs)])

SetAdd(xs, x) == IF x \in Range(xs) THEN xs ELSE Append(xs, x)

\* Array.prototype.join(', ')
RECURSIVE Join(_)
Join(xs) ==
  IF xs = << >> THEN << >>
  ELSE IF Len(xs) = 1 THEN xs[1]
  ELSE xs[1] \o <<",", " ">> \o Join(Tail(xs))

\* lines 78-87: the Vary value of the 304
mergedVary(existing) ==
  Join(SetAdd(SetAdd(Dedup(HeaderTokens(OrElse(existing, << >>))), S_Accept), S_If_None_Match))

\* line 66 and line 73: whether the hit is answered 304
revalidatesIgnoringWildcard(entry, request) ==
  /\ Truthy(request.ifNoneMatch)
  /\ Truthy(entry.etag)
  /\ normalizeEtag(entry.etag) \in Range(inmTokens(request.ifNoneMatch))

revalidates(entry, request) ==
  /\ Truthy(request.ifNoneMatch)
  /\ Truthy(entry.etag)
  /\ \/ normalizeEtag(entry.etag) \in Range(inmTokens(request.ifNoneMatch))
     \/ <<"*">> \in Range(inmTokens(request.ifNoneMatch))

\* lines 61-94: the response cachedFetch returns on a cache hit
cacheHitResponse(entry, request) ==
  IF revalidates(entry, request)
    THEN addStandardResponseHeaders(
           [NoResp EXCEPT !.status = 304, !.source = "cache", !.body = "empty",
                          !.etag = entry.etag, !.cacheControl = entry.cacheControl,
                          !.vary = mergedVary(entry.vary), !.cfCacheStatus = "HIT"])
    ELSE [NoResp EXCEPT !.status = entry.status, !.source = "cache", !.body = entry.body,
                        !.etag = entry.etag, !.cacheControl = entry.cacheControl,
                        !.vary = entry.vary, !.other = entry.other, !.cfCacheStatus = "HIT"]

\* Response.ok
IsOk(status) == status >= 200 /\ status <= 299

\* The Response that fetch() resolves with, for an origin reply o
originResponse(o) ==
  [NoResp EXCEPT !.status = o.status, !.source = "origin", !.body = o.body,
                 !.etag = o.etag, !.cacheControl = o.cacheControl, !.vary = o.vary,
                 !.other = o.other]

\* lines 96-103: the entry handed to cache.put on a miss
cacheableEntryAnyStatus(key, o) ==
  {[key |-> key, status |-> o.status, etag |-> o.etag, vary |-> o.vary,
    cacheControl |-> DEFAULT_CACHE_CONTROL_OK, other |-> o.other, body |-> o.body]}

cacheableEntry(key, o) ==
  IF IsOk(o.status)
    THEN {[key |-> key, status |-> o.status, etag |-> o.etag, vary |-> o.vary,
           cacheControl |-> DEFAULT_CACHE_CONTROL_OK, other |-> o.other, body |-> o.body]}
    ELSE {}

\* ---------------------------------------------------------- torrserver.ts --
\* The fields read from the JSON body (lines 167-170 and 306-308)
bodyMagnet(b) == Trim(OrElse(b.magnet, << >>))

bodyUrl(b) == Trim(OrElse(b.url, << >>))

bodyUser(b) == Trim(OrElse(b.username, << >>))

bodyPass(b) == IF b.password = Null THEN << >> ELSE b.password

credentialsMismatch(user, pass) ==
  (Truthy(user) /\ ~Truthy(pass)) \/ (Truthy(pass) /\ ~Truthy(user))

\* handleTorrServerAdd lines 160-182: the message key of the 400 it returns,
\* "TypeError" when a statement throws outside every try block, or "ok" when
\* the request goes on to the fetch.
addCheck(request) ==
  LET b == request.body
  IN  IF request.method # "POST" THEN "bad_request"
      ELSE IF b.kind \in {"none", "text"} THEN "expect_json_body"
      ELSE IF b.kind = "null" THEN "TypeError"
      ELSE IF bodyMagnet(b) = << >> \/ ~StartsWith(bodyMagnet(b), MAGNET_PREFIX) THEN "invalid_magnet"
      ELSE IF bodyUrl(b) = << >> THEN "missing_url"
      ELSE IF credentialsMismatch(bodyUser(b), bodyPass(b)) THEN "auth_credentials_mismatch"
      ELSE IF normalizeTorrServerUrlError(bodyUrl(b)) # "none"
        THEN normalizeTorrServerUrlError(bodyUrl(b))
      ELSE IF RelativeUrlThrows(normalizeTorrServerUrl(bodyUrl(b))) THEN "TypeError"
      ELSE "ok"

\* handleTorrServerTest lines 299-316
testCheck(request) ==
  LET b == request.body
  IN  IF request.method # "POST" THEN "bad_request"
      ELSE IF b.kind \in {"none", "text"} THEN "expect_json_body"
      ELSE IF b.kind = "null" THEN "TypeError"
      ELSE IF bodyUrl(b) = << >> THEN "missing_url"
      ELSE IF normalizeTorrServerUrlError(bodyUrl(b)) # "none"
        THEN normalizeTorrServerUrlError(bodyUrl(b))
      ELSE IF RelativeUrlThrows(normalizeTorrServerUrl(bodyUrl(b))) THEN "TypeError"
      ELSE "ok"

\* The bodies a media server sends, by what the handlers look for in them.
MediaBodyKinds == {"matrix", "json_other", "json_cf", "text_cf", "text_other"}

\* JSON.parse(raw) yields an object
ParsesAsJson(k) == k \in {"json_other", "json_cf"}

\* lines 115-120: message, ray_id and aud of the parsed object
ParsedHasCfFields(k) == k = "json_cf"

\* line 126: /Forbidden/.test(raw) && /ray_id/i.test(raw)
RawHasCfMarkers(k) == k \in {"json_cf", "text_cf"}

\* line 340: /^Matrix\./i.test(trimmed)
RawIsMatrix(k) == k = "matrix"

\* detectCloudflareAccess(status, raw, parsed); rawGiven and parsedGiven say
\* whether the caller passed the text and the parsed object
detectCloudflareAccess(status, k, rawGiven, parsedGiven) ==
  IF status # 403 THEN FALSE
  ELSE \/ parsedGiven /\ ParsesAsJson(k) /\ ParsedHasCfFields(k)
       \/ rawGiven /\ RawHasCfMarkers(k)

\* One entry of the attempts list (lines 204, 218-224, 227-230)
Attempt(kind, status) == [type |-> "json", kind |-> kind, status |-> status]

\* handleTorrServerAdd lines 190-268: the single attempt has settled
addSettledRetriesOnce(c, out) ==
  IF out.kind = "error"
    THEN [errorResponse("torrserver_all_attempts_failed", "torrserver_all_attempts_failed", 502)
            EXCEPT !.attempts = <<Attempt("networkError", 0), Attempt("networkError", 0)>>]
    ELSE [json(200, "torrserver_add") EXCEPT
            !.attempts = <<Attempt("status", out.status), Attempt("status", out.status)>>]

addSettled(c, out) ==
  IF out.kind = "error"
    THEN [errorResponse("torrserver_all_attempts_failed", "torrserver_all_attempts_failed", 502)
            EXCEPT !.attempts =
              IF isAbortError(out.error) THEN <<Attempt("timeout", 0)>>
              ELSE <<Attempt("networkError", 0)>>]
    ELSE [json(200, "torrserver_add") EXCEPT
            !.attempts = <<Attempt("status", out.status)>>,
            !.media = [status |-> out.status, ok |-> IsOk(out.status),
                       authHint |-> IF out.status \in {401, 403} THEN "auth_error_hint" ELSE "none",
                       cloudflareAccess |->
                         detectCloudflareAccess(out.status, out.body, c.request.body.debug, TRUE),
                       version |-> FALSE,
                       raw |-> c.request.body.debug]]

\* handleTorrServerTest lines 318-355
testSettled(c, out) ==
  IF out.kind = "error"
    THEN IF isAbortError(out.error)
           THEN errorResponse("torrserver_timeout", "torrserver_timeout", 504)
           ELSE errorResponse("torrserver_network", "torrserver_network", 502)
    ELSE [json(200, "torrserver_test") EXCEPT
            !.media = [status |-> out.status,
                       ok |-> IsOk(out.status) /\ RawIsMatrix(out.body),
                       authHint |-> IF out.status \in {401, 403} THEN "auth_error_hint_tokens"
                                    ELSE "none",
                       cloudflareAccess |-> detectCloudflareAccess(out.status, out.body, TRUE, FALSE),
                       version |-> RawIsMatrix(out.body),
                       raw |-> ~(IsOk(out.status) /\ RawIsMatrix(out.body))]]

\* ----------------------------------------------- stage continuations --
\* upstream.ts lines 15-17
upstreamForbiddenNoExemption(c) ==
  (c.isApi \/ c.direct) /\ c.apiKey.keyEnforced /\ ~c.apiKey.keyValid

upstreamForbidden(c) ==
  LET apiKeyExempt == c.direct /\ isDirectApiKeyExempt(c.pathname)
  IN  (c.isApi \/ c.direct) /\ ~apiKeyExempt /\ c.apiKey.keyEnforced /\ ~c.apiKey.keyValid

\* decodeURIComponent(pathname) throws on a '%' not followed by two hex digits
decodeThrows(p) ==
  \E i \in 1..Len(p) :
    p[i] = "%" /\ ~(i + 2 <= Len(p) /\ p[i + 1] \in HexAny /\ p[i + 2] \in HexAny)

\* upstream.ts lines 26-36: the URL handed to cachedFetch
upstreamUrlKeepsKey(c) ==
  [path |-> IF c.direct THEN c.pathname ELSE mapUpstreamPath(c.pathname), query |-> c.query]

upstreamUrlOf(c) ==
  LET upstreamPath == IF c.direct THEN c.pathname ELSE mapUpstreamPath(c.pathname)
      stripped == stripApiKeyParams(c.query)
  IN  [path |-> upstreamPath,
       query |-> IF stripped.removed THEN stripped.query ELSE c.query]

\* upstream.ts lines 45-53
upstreamFailedAlways502(c, e) == errorResponse("upstream_fetch_failed", "upstream_fetch_failed", 502)

upstreamFailed(c, e) ==
  IF isAbortError(e)
    THEN [errorResponse("upstream_timeout", "upstream_timeout", 504) EXCEPT
            !.timeoutMs = c.config.upstreamTimeoutMs]
    ELSE errorResponse("upstream_fetch_failed", "upstream_fetch_failed", 502)

\* A proxy that leaves a missing Cache-Control to the standard headers
upstreamFinishNoDefault(c, r0) ==
  [addStandardResponseHeaders([r0 EXCEPT !.other = r0.other \ STRIP_RESPONSE_HEADERS]) EXCEPT
     !.serverTiming = TRUE,
     !.xUpstreamUrl = IF c.request.debug THEN c.upstreamUrl ELSE NoUrl]

\* upstream.ts lines 55-75
upstreamFinish(c, r0) ==
  LET kept == [r0 EXCEPT !.other = r0.other \ STRIP_RESPONSE_HEADERS,
                         !.cacheControl =
                           IF r0.cacheControl = NoH
                             THEN (IF IsOk(r0.status) THEN DEFAULT_CACHE_CONTROL_OK
                                   ELSE DEFAULT_CACHE_CONTROL_ERROR)
                             ELSE @]
  IN  [addStandardResponseHeaders(kept) EXCEPT
         !.serverTiming = TRUE,
         !.xUpstreamUrl = IF c.request.debug THEN c.upstreamUrl ELSE NoUrl]

\* conf.ts line 50
confForbiddenNever(c) == FALSE

confForbidden(c) ==
  c.apiKey.keyEnforced /\ Truthy(c.apiKey.suppliedKey) /\ ~c.apiKey.keyValid

\* A config endpoint that hands the origin's failure on
confFinishPropagatesFailure(c, fetched) ==
  IF fetched.status # 0 /\ IsOk(fetched.status) /\ fetched.body = "json"
    THEN [json(200, "conf+origin") EXCEPT !.source = fetched.source,
                                          !.requireApiKey = c.apiKey.keyEnforced]
    ELSE errorResponse("upstream_fetch_failed", "upstream_fetch_failed", 502)

\* conf.ts lines 52-73: fetched is the Response of cachedFetch, or NoResp
\* when cachedFetch threw
confFinish(c, fetched) ==
  LET merged == fetched.status # 0 /\ IsOk(fetched.status) /\ fetched.body = "json"
  IN  [json(200, IF merged THEN "conf+origin" ELSE "conf") EXCEPT
         !.source = IF merged THEN fetched.source ELSE "local",
         !.requireApiKey = c.apiKey.keyEnforced]

\* The stage that awaits cachedFetch takes its result
stageFinish(c, r0) ==
  [(IF c.stage = "confEndpoint" THEN confFinish(c, r0) ELSE upstreamFinish(c, r0))
     EXCEPT !.by = c.stage]

stageFailed(c, e) ==
  [(IF c.stage = "confEndpoint" THEN confFinish(c, NoResp) ELSE upstreamFailed(c, e))
     EXCEPT !.by = c.stage]

\* ------------------------------------------------------------- inputs --
EnvOpen == [API_KEY |-> Null, UPSTREAM_TIMEOUT_MS |-> Null, TORRSERVER_TIMEOUT_MS |-> Null]

EnvKeyed == [API_KEY |-> E_spaced, UPSTREAM_TIMEOUT_MS |-> <<"5", "0", "0", "0">>,
             TORRSERVER_TIMEOUT_MS |-> Null]

Param(n, v) == [name |-> n, value |-> v]

KeyParams == {Param("apikey", K_WRONG), Param("api_key", K_K2)}

QueryParams == KeyParams \cup {Param("search", V_foo)}

SeqsUpTo(S, n) == UNION {[1..k -> S] : k \in 0..n}

Queries == SeqsUpTo(QueryParams, MaxQuery)

Req(m, p, q, cc, inm, d, b) ==
  [method |-> m, pathname |-> p, query |-> q, cacheControl |-> cc, ifNoneMatch |-> inm,
   debug |-> d, body |-> b]

ProxyRequests ==
  {Req(m, p, q, Null, Null, p = S_api_torrents, NoBody) :
     m \in {"GET"},
     p \in {S_api_torrents, S_api_conf, S_health_live, S_healthz},
     q \in Queries}

HeaderRequests ==
  {Req("GET", S_api_torrents, q, cc, inm, FALSE, NoBody) :
     q \in {<<Param("apikey", K_K1)>>},
     cc \in {Null, T_no_store_uc},
     inm \in {Null, T_abc_weak, T_star}}

EdgeRequests ==
  {Req(m, p, <<Param("apikey", K_K1)>>, Null, Null, FALSE, NoBody) :
     m \in {"GET", "HEAD"},
     p \in {S_api_bad_pct, S_stats_x, S_api_torrserver_conf, S_api_foo_conf, LOCAL_PREFIX}}

StaticRequests ==
  {Req(m, p, << >>, Null, Null, FALSE, NoBody) :
     m \in {"GET", "OPTIONS", "DELETE"},
     p \in {S_root, S_stats, S_css_app_js, S_css_app_hashed_js, S_unknown, S_api_torrents}}

JsonBody(m, u, user, pass, d) ==
  [kind |-> "object", magnet |-> m, url |-> u, username |-> user, password |-> pass, debug |-> d]

Creds == {<<Null, Null>>, <<C_user, C_pass>>, <<C_user, Null>>}

Bodies ==
  {JsonBody(m, u, Null, Null, FALSE) :
     m \in {Null, M_magnet_sp, M_magnet_bad}, u \in {Null, U_ok, U_bad, U_opaque}}
  \cup {JsonBody(m, U_ok, cr[1], cr[2], FALSE) : m \in {Null, M_magnet_sp}, cr \in Creds}
  \cup {JsonBody(M_magnet_sp, U_bad, C_user, Null, FALSE)}
  \cup {JsonBody(M_magnet_sp, U_ok, Null, Null, TRUE)}
  \cup {[NoBody EXCEPT !.kind = k] : k \in {"text", "null"}}

TorrRequests ==
  {Req("POST", TORRSERVER_ADD_PATH, << >>, Null, Null, FALSE, b) : b \in Bodies}
  \cup {Req("POST", TORRSERVER_TEST_PATH, << >>, Null, Null, FALSE, b) :
          b \in {x \in Bodies : x.magnet = Null}}
  \cup {Req("GET", p, << >>, Null, Null, FALSE, NoBody) :
          p \in {TORRSERVER_ADD_PATH, TORRSERVER_TEST_PATH}}

Requests == ProxyRequests \cup HeaderRequests \cup EdgeRequests \cup StaticRequests \cup TorrRequests

Reply(s, e, v, b) ==
  [status |-> s, etag |-> e, vary |-> v, cacheControl |-> NoH,
   other |-> {"content-type", "set-cookie"}, body |-> b]

OriginReplies == {Reply(200, T_abc_q, Null, "json"), Reply(403, Null, Null, "text")}

MediaReplies ==
  {[kind |-> "response", error |-> "none", status |-> s, body |-> k] :
     s \in {200, 401, 403}, k \in {"matrix", "json_cf", "text_cf"}}

\* ------------------------------------------------------------- actions --
TypeOK == pc \in {"idle", "originFetch", "mediaFetch", "done"}

InitCommon ==
  /\ cache = {}
  /\ state = [loaded |-> FALSE, loading |-> FALSE, map |-> {}]
  /\ ctx = NoCtx
  /\ pc = "idle"
  /\ resp = NoResp
  /\ calls = NoCalls
  /\ sent = NoUrl
  /\ settled = "none"
  /\ attempts = << >>
  /\ pending = {}
  /\ callers = << >>
  /\ urls = << >>

Init == env \in {EnvOpen, EnvKeyed} /\ InitCommon

\* The worker takes the next request once the previous response has been
\* handed back and its background cache write has settled.
Ready == pc = "idle" /\ pending = {}

\* A request answered without suspending: the context, the response and the
\* calls made
Answer(c, stage, r, n) ==
  /\ ctx' = [c EXCEPT !.stage = stage]
  /\ resp' = [r EXCEPT !.by = stage]
  /\ calls' = n
  /\ pc' = "done"
  /\ sent' = NoUrl
  /\ settled' = "none"
  /\ attempts' = r.attempts

\* statsAsset.ts lines 7-15
StatsAsset(Reqs) ==
  /\ Ready
  /\ \E r \in Reqs : \E outcome \in LoadOutcomes : \E assetStatus \in {200, 404} :
       LET c == Context(env, r)
           res == resolveHashedPath(state, S_stats_html, outcome)
       IN  /\ Route(c) = "statsAsset"
           /\ state' = res.state
           /\ Answer(c, "statsAsset", withAdjustedAssetCaching(res.path, assetStatus),
                     [NoCalls EXCEPT !.assets = 1, !.manifest = IF res.fetched THEN 1 ELSE 0])
  /\ UNCHANGED <<env, cache, pending, callers, urls>>

\* staticAsset.ts lines 10-29
StaticAsset(Reqs) ==
  /\ Ready
  /\ \E r \in Reqs : \E outcome \in LoadOutcomes : \E assetStatus \in {200, 404} :
       LET c == Context(env, r)
           effectivePath == IF c.pathname = S_root THEN S_index_html ELSE c.pathname
           res == resolveHashedPath(state, effectivePath, outcome)
       IN  /\ Route(c) = "staticAsset"
           /\ state' = res.state
           /\ Answer(c, "staticAsset", withAdjustedAssetCaching(res.path, assetStatus),
                     [NoCalls EXCEPT !.assets = 1, !.manifest = IF res.fetched THEN 1 ELSE 0])
  /\ UNCHANGED <<env, cache, pending, callers, urls>>

\* part_009 lines 5-14
MethodAndCors(Reqs) ==
  /\ Ready
  /\ \E r \in Reqs :
       LET c == Context(env, r)
       IN  /\ Route(c) = "methodAndCors"
           /\ Answer(c, "methodAndCors",
                     IF r.method \notin ALLOWED_METHODS THEN methodNotAllowed
                     ELSE [NoResp EXCEPT !.status = 204, !.source = "local", !.body = "empty",
                                         !.cors = TRUE],
                     NoCalls)
  /\ UNCHANGED <<env, cache, state, pending, callers, urls>>

\* part_007 lines 4-23 with torrserver.ts lines 159-201 and 298-321: up to
\* the fetch to the media server
Torrserver(Reqs) ==
  /\ Ready
  /\ \E r \in Reqs :
       LET c == Context(env, r)
           verdict == IF c.pathname = TORRSERVER_ADD_PATH THEN addCheck(r) ELSE testCheck(r)
       IN  /\ Route(c) = "torrserver"
           /\ IF verdict = "ok"
                THEN /\ ctx' = [c EXCEPT !.stage = "torrserver"]
                     /\ pc' = "mediaFetch"
                     /\ resp' = NoResp
                     /\ calls' = [NoCalls EXCEPT !.media = 1]
                     /\ sent' = NoUrl
                     /\ settled' = "none"
                     /\ attempts' = << >>
                ELSE Answer(c, "torrserver",
                            IF verdict = "TypeError" THEN uncaughtException("TypeError")
                            ELSE badRequest(verdict),
                            NoCalls)
  /\ UNCHANGED <<env, cache, state, pending, callers, urls>>

MediaSettled(out) ==
  /\ pc = "mediaFetch"
  /\ resp' = [(IF ctx.pathname = TORRSERVER_ADD_PATH THEN addSettled(ctx, out)
               ELSE testSettled(ctx, out)) EXCEPT !.by = "torrserver"]
  /\ attempts' = resp'.attempts
  /\ settled' = IF out.kind = "error" THEN out.error ELSE "response"
  /\ pc' = "done"
  /\ UNCHANGED <<env, cache, state, ctx, calls, sent, pending, callers, urls>>

\* The media server answers before the deadline.
MediaResponds(Replies) == \E out \in Replies : MediaSettled(out)

\* fetch rejects: DNS failure, refused connection
MediaFails == MediaSettled([kind |-> "error", error |-> "TypeError", status |-> 0, body |-> "none"])

\* fetching.ts line 13: the timer fires and aborts the fetch
MediaTimeout == MediaSettled([kind |-> "error", error |-> "AbortError", status |-> 0, body |-> "none"])

\* fetching.ts lines 53-95: cachedFetch up to its first suspension, called by
\* stage for URL u
CachedFetch(c, stage, u) ==
  LET c2 == [c EXCEPT !.stage = stage, !.upstreamUrl = u]
      key == buildCacheKey(c.request, u)
      hit == cacheMatch(cache, key)
  IN  IF cacheBypass(c.request)
        THEN /\ ctx' = c2
             /\ pc' = "originFetch"
             /\ resp' = NoResp
             /\ calls' = [NoCalls EXCEPT !.origin = 1]
             /\ sent' = u
             /\ settled' = "none"
             /\ attempts' = << >>
        ELSE IF hit # {}
          THEN /\ ctx' = c2
               /\ pc' = "done"
               /\ resp' = stageFinish(c2, cacheHitResponse(CHOOSE e \in hit : TRUE, c.request))
               /\ calls' = [NoCalls EXCEPT !.cacheMatch = 1]
               /\ sent' = NoUrl
               /\ settled' = "none"
               /\ attempts' = << >>
          ELSE /\ ctx' = c2
               /\ pc' = "originFetch"
               /\ resp' = NoResp
               /\ calls' = [NoCalls EXCEPT !.cacheMatch = 1, !.origin = 1]
               /\ sent' = u
               /\ settled' = "none"
               /\ attempts' = << >>

\* conf.ts lines 48-56
ConfEndpoint(Reqs) ==
  /\ Ready
  /\ \E r \in Reqs :
       LET c == Context(env, r)
       IN  /\ Route(c) = "confEndpoint"
           /\ IF confForbidden(c)
                THEN Answer(c, "confEndpoint",
                            [errorResponse("forbidden", "forbidden", 403) EXCEPT !.requireApiKey = TRUE],
                            NoCalls)
                ELSE CachedFetch(c, "confEndpoint",
                                 [path |-> mapUpstreamPath(S_api_conf), query |-> << >>])
  /\ UNCHANGED <<env, cache, state, pending, callers, urls>>

\* upstream.ts lines 10-44
Upstream(Reqs) ==
  /\ Ready
  /\ \E r \in Reqs :
       LET c == Context(env, r)
       IN  /\ Route(c) = "upstream"
           /\ IF upstreamForbidden(c)
                THEN Answer(c, "upstream", errorResponse("forbidden", "forbidden", 403), NoCalls)
                ELSE IF decodeThrows(c.pathname)
                  THEN Answer(c, "upstream", badRequest("path_decode_error"), NoCalls)
                  ELSE CachedFetch([c EXCEPT !.query = stripApiKeyParams(c.query).query],
                                   "upstream", upstreamUrlOf(c))
  /\ UNCHANGED <<env, cache, state, pending, callers, urls>>

\* part_010 lines 61-62
Unhandled(Reqs) ==
  /\ Ready
  /\ \E r \in Reqs :
       LET c == Context(env, r)
       IN  /\ Route(c) = "unhandled"
           /\ Answer(c, "unhandled",
                     [NoResp EXCEPT !.status = 500, !.source = "local", !.body = "Unhandled request"],
                     NoCalls)
  /\ UNCHANGED <<env, cache, state, pending, callers, urls>>

\* fetching.ts lines 95-105, then the awaiting stage: the origin answers
OriginResponds(Replies) ==
  /\ pc = "originFetch"
  /\ \E o \in Replies :
       LET put == IF cacheBypass(ctx.request) THEN {}
                  ELSE cacheableEntry(buildCacheKey(ctx.request, ctx.upstreamUrl), o)
       IN  /\ pending' = pending \cup put
           /\ calls' = [calls EXCEPT !.cachePut = IF put = {} THEN @ ELSE @ + 1]
           /\ resp' = stageFinish(ctx, originResponse(o))
  /\ settled' = "response"
  /\ pc' = "done"
  /\ UNCHANGED <<env, cache, state, ctx, sent, attempts, callers, urls>>

OriginSettledWithError(e) ==
  /\ pc = "originFetch"
  /\ resp' = stageFailed(ctx, e)
  /\ settled' = e
  /\ pc' = "done"
  /\ UNCHANGED <<env, cache, state, ctx, calls, sent, attempts, pending, callers, urls>>

\* fetch rejects: DNS failure, refused connection
OriginFails == OriginSettledWithError("TypeError")

\* fetching.ts line 13: the timer fires and aborts the fetch
OriginTimeout == OriginSettledWithError("AbortError")

\* The write handed to waitUntil reaches the cache; the platform keeps at
\* most MaxCache entries and drops another one when it is full.
CachePutCompletes ==
  /\ pending # {}
  /\ \E e \in pending :
       LET others == {x \in cache : x.key # e.key}
       IN  /\ pending' = pending \ {e}
           /\ IF Cardinality(others) < MaxCache
                THEN cache' = others \cup {e}
                ELSE \E victim \in others : cache' = (others \ {victim}) \cup {e}
  /\ UNCHANGED <<env, state, ctx, pc, resp, calls, sent, settled, attempts, callers, urls>>

\* The write fails: nothing is stored and nobody is told.
CachePutFails ==
  /\ pending # {}
  /\ \E e \in pending : pending' = pending \ {e}
  /\ UNCHANGED <<env, cache, state, ctx, pc, resp, calls, sent, settled, attempts, callers, urls>>

\* The platform evicts an entry (expiry, memory pressure).
CacheEvict ==
  /\ \E e \in cache : cache' = cache \ {e}
  /\ UNCHANGED <<env, state, ctx, pc, resp, calls, sent, settled, attempts, pending, callers, urls>>

\* A worker that holds the response until the cache write has settled
RespondAfterCacheWrite ==
  /\ pc = "done"
  /\ pending = {}
  /\ pc' = "idle"
  /\ ctx' = NoCtx
  /\ resp' = NoResp
  /\ calls' = NoCalls
  /\ sent' = NoUrl
  /\ settled' = "none"
  /\ attempts' = << >>
  /\ UNCHANGED <<env, cache, state, pending, callers, urls>>

\* part_010 lines 57-60: the pipeline loop returns the stage's response
Respond ==
  /\ pc = "done"
  /\ pc' = "idle"
  /\ ctx' = NoCtx
  /\ resp' = NoResp
  /\ calls' = NoCalls
  /\ sent' = NoUrl
  /\ settled' = "none"
  /\ attempts' = << >>
  /\ UNCHANGED <<env, cache, state, pending, callers, urls>>

Next ==
  \/ StatsAsset(Requests)
  \/ StaticAsset(Requests)
  \/ MethodAndCors(Requests)
  \/ Torrserver(Requests)
  \/ MediaResponds(MediaReplies)
  \/ MediaFails
  \/ MediaTimeout
  \/ ConfEndpoint(Requests)
  \/ Upstream(Requests)
  \/ Unhandled(Requests)
  \/ OriginResponds(OriginReplies)
  \/ OriginFails
  \/ OriginTimeout
  \/ CachePutCompletes
  \/ CachePutFails
  \/ CacheEvict
  \/ Respond

Spec == Init /\ [][Next]_vars

\* ------------------------------------------------ properties: pipeline --
\* The key-exempt direct paths, as the contract names them
ExemptPath(p) ==
  \E b \in {S_lastupdatedb, S_health} : p = b \/ StartsWith(p, b \o <<"/">>)

AnsweredBy(stage) == pc = "done" /\ resp.by = stage

Forbidden403 == resp.status = 403 /\ resp.code = "forbidden"

NoKeyParam(q) == ~SearchHas(q, "apikey") /\ ~SearchHas(q, "api_key")

\* The cache was looked up or the origin contacted for the request in hand,
\* or the response carries content from one of them
Consulted ==
  calls.cacheMatch > 0 \/ calls.origin > 0 \/ resp.source \in {"cache", "origin"}

PassedKeyCheck ==
  \/ ~ctx.apiKey.keyEnforced
  \/ (Truthy(ctx.apiKey.suppliedKey) /\ ctx.apiKey.keyValid)
  \/ ExemptPath(ctx.pathname)

NoKeySupplied == ~Truthy(ctx.apiKey.suppliedKey)

\* C1: the generic-proxy stage answers 403 "forbidden" exactly when key
\* enforcement is on, the key verdict is invalid and the path is not a
\* key-exempt direct path; and when it answers 403 it has made no fetch to the
\* origin, no cache lookup and no cache write for that request.
C1_UpstreamForbiddenExactly ==
  AnsweredBy("upstream") =>
    /\ Forbidden403 <=>
         (ctx.apiKey.keyEnforced /\ ~ctx.apiKey.keyValid /\ ~ExemptPath(ctx.pathname))
    /\ Forbidden403 =>
         (calls.origin = 0 /\ calls.cacheMatch = 0 /\ calls.cachePut = 0 /\ sent = NoUrl)

C1_Witness ==
  /\ AnsweredBy("upstream") /\ Forbidden403
  /\ ctx.apiKey.keyEnforced /\ NoKeySupplied
  /\ cache # {}

\* C2 as stated: at every stage the cache is looked up and the origin
\* contacted only if enforcement is off, the supplied key is in the allow-list
\* or the path is key-exempt; with enforcement on and no key there is never a
\* cache lookup nor content from the cache or the origin.
C2_ConsultedOnlyAfterKeyCheck ==
  /\ Consulted => PassedKeyCheck
  /\ (ctx.apiKey.keyEnforced /\ NoKeySupplied) => ~Consulted

\* C2 amended: the cache is looked up and the origin contacted only if
\* enforcement is off, the supplied key is in the allow-list, the path is
\* key-exempt, or the config-endpoint stage handles a request that supplies no
\* key; in the generic-proxy stage a request with enforcement on, no key and a
\* path that is not key-exempt never triggers a lookup nor receives such content.
C2_ConsultedOnlyAfterKeyCheckOrConfNoKey ==
  /\ Consulted => (PassedKeyCheck \/ (ctx.stage = "confEndpoint" /\ NoKeySupplied))
  /\ (ctx.stage = "upstream" /\ ctx.apiKey.keyEnforced /\ NoKeySupplied
        /\ ~ExemptPath(ctx.pathname)) => ~Consulted

C2_Witness ==
  /\ AnsweredBy("confEndpoint")
  /\ ctx.apiKey.keyEnforced /\ NoKeySupplied
  /\ calls.cacheMatch = 1 /\ calls.origin = 1
  /\ resp.body = "conf+origin"

\* C3: every URL the generic-proxy stage sends to the origin, and that URL
\* when echoed in X-Upstream-URL, has neither an apikey nor an api_key
\* parameter, whatever query string the caller sent.
C3_NoKeyInUpstreamUrl ==
  ctx.stage = "upstream" =>
    /\ sent # NoUrl => (NoKeyParam(sent.query) /\ sent = ctx.upstreamUrl)
    /\ resp.xUpstreamUrl # NoUrl =>
         (NoKeyParam(resp.xUpstreamUrl.query) /\ resp.xUpstreamUrl = ctx.upstreamUrl)

C3_Witness ==
  /\ AnsweredBy("upstream")
  /\ SearchHas(ctx.request.query, "apikey") /\ SearchHas(ctx.request.query, "api_key")
  /\ sent # NoUrl /\ resp.xUpstreamUrl = sent

ConfiguredUpstreamTimeoutMs == IF env = EnvKeyed THEN 5000 ELSE DEFAULT_UPSTREAM_TIMEOUT_MS

RawException == resp.source = "runtime" \/ resp.code = "uncaught_exception"

\* C7: when the generic-proxy stage's origin fetch is aborted by the deadline
\* timer the response is 504 upstream_timeout with timeoutMs equal to the
\* configured upstream timeout; when it fails otherwise the response is 502
\* upstream_fetch_failed; no raw exception escapes the stage.
C7_UpstreamFailureTranslated ==
  (AnsweredBy("upstream") /\ settled \notin {"none", "response"}) =>
    /\ settled = "AbortError" =>
         (resp.status = 504 /\ resp.code = "upstream_timeout"
            /\ resp.timeoutMs = ConfiguredUpstreamTimeoutMs)
    /\ settled # "AbortError" =>
         (resp.status = 502 /\ resp.code = "upstream_fetch_failed")
    /\ ~RawException

C7_Witness ==
  /\ AnsweredBy("upstream") /\ settled = "AbortError"
  /\ resp.status = 504 /\ resp.timeoutMs = 5000

\* C8: for both media-bridge operations, a call to the media server that
\* exceeds the deadline is answered 504 and any other network failure is
\* answered 502.
C8_MediaFailureStatus ==
  (AnsweredBy("torrserver") /\ settled \notin {"none", "response"}) =>
    resp.status = (IF settled = "AbortError" THEN 504 ELSE 502)

\* C9: one inbound request causes at most one call to the origin and at most
\* one call to the media server, whatever the outcome; and when the add
\* operation has attempted its call the attempts list has exactly one entry.
C9_AtMostOneOutboundCall ==
  /\ calls.origin <= 1 /\ calls.media <= 1
  /\ (AnsweredBy("torrserver") /\ ctx.pathname = TORRSERVER_ADD_PATH /\ calls.media = 1) =>
       (Len(resp.attempts) = 1 /\ Len(attempts) = 1)

C9_Witness ==
  /\ AnsweredBy("torrserver") /\ ctx.pathname = TORRSERVER_ADD_PATH
  /\ settled = "AbortError" /\ calls.media = 1 /\ Len(resp.attempts) = 1

\* C10: whenever the add or the test operation rejects its input (it ends
\* without calling the media server), the response is a 400 client error, never
\* a 5xx.
C10_RejectionIs400 ==
  (AnsweredBy("torrserver") /\ calls.media = 0) => resp.status = 400

\* ------------------------------------------- cache keys of URL variants --
\* A pair of upstream URLs built from one base URL by adding, removing and
\* changing the parameters the cache key ignores, each with the method of the
\* request it came with, and the cache keys computed for them.
MaxVolatile == 2

VolatileNames == {"apikey", "api_key", "_"}

VolatileParams ==
  {Param("apikey", K_K1), Param("apikey", K_K2), Param("api_key", K_K1), Param("_", V_1)}

BaseQueries == {<< >>, <<Param("search", V_foo)>>}

\* The methods of the two requests
MethodPairs == {<<"POST", "GET">>, <<"GET", "HEAD">>}

NoKey == [method |-> "none", path |-> Null, query |-> << >>]

InsertAt(q, i, p) == SubSeq(q, 1, i - 1) \o <<p>> \o SubSeq(q, i, Len(q))

RemoveAt(q, i) == SubSeq(q, 1, i - 1) \o SubSeq(q, i + 1, Len(q))

VolatileCount(q) == Len(SelectSeq(q, LAMBDA p : p.name \in VolatileNames))

\* InitCommon with the URL pair drawn from the base URLs
InitKey ==
  /\ env = EnvOpen
  /\ cache = {}
  /\ state = [loaded |-> FALSE, loading |-> FALSE, map |-> {}]
  /\ ctx = NoCtx
  /\ pc = "idle"
  /\ resp = NoResp
  /\ calls = NoCalls
  /\ sent = NoUrl
  /\ settled = "none"
  /\ attempts = << >>
  /\ pending = {}
  /\ callers = << >>
  /\ \E q \in BaseQueries : \E m \in MethodPairs :
       urls = [a |-> [method |-> m[1], url |-> [path |-> mapUpstreamPath(S_api_torrents), query |-> q]],
               b |-> [method |-> m[2], url |-> [path |-> mapUpstreamPath(S_api_torrents), query |-> q]],
               keyA |-> NoKey, keyB |-> NoKey]

KeyUnchanged ==
  UNCHANGED <<env, cache, state, ctx, pc, resp, calls, sent, settled, attempts, pending, callers>>

\* One of the two URLs becomes q; keys computed before are stale
Edited(side, q) ==
  urls' = [urls EXCEPT ![side].url.query = q, !.keyA = NoKey, !.keyB = NoKey]

\* A caller adds an ignored parameter (a key, a cache-buster) anywhere
AddVolatile ==
  /\ \E side \in {"a", "b"} :
       LET q == urls[side].url.query
       IN  /\ VolatileCount(q) < MaxVolatile
           /\ \E i \in 1..(Len(q) + 1) : \E p \in VolatileParams : Edited(side, InsertAt(q, i, p))
  /\ KeyUnchanged

\* A caller leaves an ignored parameter out
DropVolatile ==
  /\ \E side \in {"a", "b"} :
       LET q == urls[side].url.query
       IN  \E i \in 1..Len(q) : q[i].name \in VolatileNames /\ Edited(side, RemoveAt(q, i))
  /\ KeyUnchanged

\* A caller sends another value for an ignored parameter
ChangeVolatile ==
  /\ \E side \in {"a", "b"} :
       LET q == urls[side].url.query
       IN  \E i \in 1..Len(q) : \E p \in VolatileParams :
             /\ q[i].name = p.name /\ q[i].value # p.value
             /\ Edited(side, [q EXCEPT ![i] = p])
  /\ KeyUnchanged

\* fetching.ts line 59: cachedFetch builds the key of each URL
BuildCacheKeys ==
  /\ urls.keyA = NoKey
  /\ urls' = [urls EXCEPT
       !.keyA = buildCacheKey([NoRequest EXCEPT !.method = urls.a.method], urls.a.url),
       !.keyB = buildCacheKey([NoRequest EXCEPT !.method = urls.b.method], urls.b.url)]
  /\ KeyUnchanged

NextKey == AddVolatile \/ DropVolatile \/ ChangeVolatile \/ BuildCacheKeys

SpecKey == InitKey /\ [][NextKey]_vars

\* C4: buildCacheKey yields the identical key for two upstream URLs that
\* differ only in the presence or value of apikey, api_key and _; no key it
\* produces contains one of them; the key's method is GET whatever the
\* request's method.
C4_CacheKeyIgnoresVolatile ==
  urls.keyA # NoKey =>
    /\ urls.keyA = urls.keyB
    /\ \A k \in {urls.keyA, urls.keyB} :
         /\ \A i \in 1..Len(k.query) : k.query[i].name \notin VolatileNames
         /\ k.method = "GET"

C4_Witness ==
  /\ urls.keyA # NoKey
  /\ urls.a.method = "POST" /\ urls.b.method = "GET"
  /\ SearchHas(urls.a.url.query, "_") /\ SearchHas(urls.a.url.query, "apikey")
  /\ SearchHas(urls.b.url.query, "api_key") /\ ~SearchHas(urls.b.url.query, "_")
  /\ SearchHas(urls.keyA.query, "search")

\* ------------------------------------------------- conditional requests --
T_star_q == <<"\"", "*", "\"">>

S_Origin == <<"O", "r", "i", "g", "i", "n">>

\* GET /api/torrents with the If-None-Match values a client may send
CacheRequests ==
  {Req("GET", S_api_torrents, << >>, Null, inm, FALSE, NoBody) :
     inm \in {Null, T_abc_q, T_abc_weak_lc, T_abc_bare, T_xyz_q, T_star, T_star_q, T_list,
              T_abc_half}}

\* 200 replies of the origin with the validators and Vary values it may send
CacheReplies ==
  {Reply(200, e, v, "json") :
     e \in {Null, T_abc_q, T_abc_weak, T_xyz_q}, v \in {Null, S_Accept, S_Origin}}

InitCache == env = EnvOpen /\ InitCommon

NextCache ==
  \/ Upstream(CacheRequests)
  \/ OriginResponds(CacheReplies)
  \/ CachePutCompletes
  \/ CacheEvict
  \/ Respond

SpecCache == InitCache /\ [][NextCache]_vars

\* The entry a cache hit was answered from
HitEntries ==
  IF pc = "done" /\ resp.source = "cache"
    THEN cacheMatch(cache, buildCacheKey(ctx.request, ctx.upstreamUrl))
    ELSE {}

\* The comma-separated members of a header value, trimmed
ListMembers(v) ==
  IF v = Null THEN {}
  ELSE {Trim(Split(v, ",")[i]) : i \in 1..Len(Split(v, ","))} \ {<< >>}

\* A validator without the weak prefix W/ and without the surrounding quotes
Unweakened(t) ==
  IF Len(t) >= 2 /\ t[1] \in {"W", "w"} /\ t[2] = "/" THEN SubSeq(t, 3, Len(t)) ELSE t

Unquoted(t) ==
  LET a == IF t # << >> /\ t[1] = "\"" THEN SubSeq(t, 2, Len(t)) ELSE t
  IN  IF a # << >> /\ a[Len(a)] = "\"" THEN SubSeq(a, 1, Len(a) - 1) ELSE a

Validator(t) == Unquoted(Unweakened(t))

NotModified ==
  /\ resp.status = 304 /\ resp.body = "empty"
  /\ {S_Accept, S_If_None_Match} \subseteq ListMembers(resp.vary)

FullCached(e) ==
  resp.status = e.status /\ resp.status = 200 /\ resp.body = e.body /\ resp.cfCacheStatus = "HIT"

\* C5 as stated: a cache hit is answered 304 with an empty body and a Vary
\* naming Accept and If-None-Match exactly when If-None-Match contains the
\* wildcard * (regardless of the stored ETag) or a token equal, after stripping
\* W/ and the quotes, to the cached ETag stripped the same way; every other hit
\* returns the full cached body with the cached 200 status and the HIT marker.
C5_HitRevalidation ==
  \A e \in HitEntries :
    IF \/ T_star \in ListMembers(ctx.request.ifNoneMatch)
       \/ /\ e.etag # Null
          /\ \E t \in ListMembers(ctx.request.ifNoneMatch) : Validator(t) = Validator(e.etag)
      THEN NotModified
      ELSE FullCached(e)

\* C5 amended: the 304 is given exactly when the cached response carries a
\* non-empty ETag and If-None-Match has a member that, after stripping W/ and
\* the quotes, is the wildcard * or equals the cached ETag stripped the same
\* way; every other hit returns the full cached body, status 200 and the HIT
\* marker.
C5_HitRevalidationNeedsEtag ==
  \A e \in HitEntries :
    IF /\ e.etag # Null /\ e.etag # << >>
       /\ \E t \in ListMembers(ctx.request.ifNoneMatch) :
            Validator(t) = T_star \/ Validator(t) = Validator(e.etag)
      THEN NotModified
      ELSE FullCached(e)

C5_Witness ==
  \E e \in HitEntries :
    /\ e.etag = T_abc_weak /\ e.vary = S_Origin
    /\ ctx.request.ifNoneMatch = T_list
    /\ NotModified

C5_WitnessWildcardNoEtag ==
  \E e \in HitEntries :
    e.etag = Null /\ ctx.request.ifNoneMatch = T_star /\ FullCached(e)

\* ------------------------------------------ concurrent manifest resolves --
\* callers: the calls to resolveHashedPath made by requests the platform
\* dispatches concurrently; each is at "start", suspended in "awaitLoad", or
\* "done" with its result.
CallerPaths == {S_index_html, S_css_app_js, S_css_app_hashed_js}

InitManifest ==
  /\ env = EnvOpen
  /\ cache = {}
  /\ state = [loaded |-> FALSE, loading |-> FALSE, map |-> {}]
  /\ ctx = NoCtx
  /\ pc = "idle"
  /\ resp = NoResp
  /\ calls = NoCalls
  /\ sent = NoUrl
  /\ settled = "none"
  /\ attempts = << >>
  /\ pending = {}
  /\ urls = << >>
  /\ \E n \in 1..MaxCallers :
       callers \in [1..n -> {[path |-> p, at |-> "start", result |-> Null] : p \in CallerPaths}]

ManifestUnchanged ==
  UNCHANGED <<env, cache, ctx, pc, resp, sent, settled, attempts, pending, urls>>

\* manifest.ts lines 49-52 and load() lines 25-28, 30: a call runs up to its
\* first suspension
ResolveStart ==
  /\ \E i \in 1..Len(callers) :
       LET p == callers[i].path
       IN  /\ callers[i].at = "start"
           /\ IF LooksHashed(p)
                THEN /\ callers' = [callers EXCEPT ![i].at = "done", ![i].result = p]
                     /\ UNCHANGED <<state, calls>>
                ELSE IF state.loaded
                  THEN /\ callers' = [callers EXCEPT ![i].at = "done",
                                                     ![i].result = LookupHashed(state.map, p)]
                       /\ UNCHANGED <<state, calls>>
                  ELSE /\ callers' = [callers EXCEPT ![i].at = "awaitLoad"]
                       /\ calls' = [calls EXCEPT
                                      !.manifest = IF loadFetches(state) THEN @ + 1 ELSE @]
                       /\ state' = loadStart(state)
  /\ ManifestUnchanged

\* manifest.ts lines 31-43: the fetch of asset-manifest.json settles
ManifestFetchSettles ==
  /\ state.loading
  /\ \E outcome \in LoadOutcomes : state' = loadFinish(state, outcome)
  /\ UNCHANGED <<callers, calls>>
  /\ ManifestUnchanged

\* manifest.ts lines 52-58: a suspended call resumes once the load promise
\* has resolved
ResolveResume ==
  /\ ~state.loading
  /\ \E i \in 1..Len(callers) :
       /\ callers[i].at = "awaitLoad"
       /\ callers' = [callers EXCEPT ![i].at = "done",
                                     ![i].result = LookupHashed(state.map, callers[i].path)]
  /\ UNCHANGED <<state, calls>>
  /\ ManifestUnchanged

NextManifest == ResolveStart \/ ManifestFetchSettles \/ ResolveResume

SpecManifest == InitManifest /\ [][NextManifest]_vars

Entered(i) == callers[i].at # "start" /\ ~LooksHashed(callers[i].path)

\* C6: for any number of concurrent first calls to resolveHashedPath with
\* non-hashed paths, in every interleaving with the manifest load, exactly one
\* fetch of asset-manifest.json is issued and every caller waits for that one
\* load.
C6_OneManifestFetch ==
  /\ calls.manifest <= 1
  /\ (\E i \in 1..Len(callers) : Entered(i)) => calls.manifest = 1
  /\ \A i \in 1..Len(callers) :
       /\ (Entered(i) /\ callers[i].at = "awaitLoad") => (state.loading \/ state.loaded)
       /\ (Entered(i) /\ callers[i].at = "done") => state.loaded

C6_Witness ==
  /\ Len(callers) = MaxCallers
  /\ \A i \in 1..Len(callers) : Entered(i) /\ callers[i].at = "awaitLoad"
  /\ state.loading /\ calls.manifest = 1
\* ===================================================== media-bridge body ==
\* The request in flight is a POST with a JSON body to the given media-bridge
\* path (a JSON null is a JSON body whose fields are all missing).
JsonPost(path) ==
  /\ ctx # NoCtx
  /\ ctx.pathname = path
  /\ ctx.request.method = "POST"
  /\ ctx.request.body.kind \in {"object", "null"}

FieldOf(v) == IF v = Null THEN << >> ELSE Trim(v)

MagnetRejected(b) == ~StartsWith(FieldOf(b.magnet), MAGNET_PREFIX)

UrlMissing(b) == FieldOf(b.url) = << >>

UrlMalformed(b) == ~UrlMissing(b) /\ UrlKind(FieldOf(b.url)) = "invalid"

PairIncomplete(b) == (FieldOf(b.username) = << >>) # (FieldOf(b.password) = << >>)

Rejected400(key) ==
  /\ resp.status = 400
  /\ resp.messageKey = key
  /\ calls.media = 0

\* C11: the add operation reports the first failure in the order magnet,
\* target URL (missing, then malformed), credential pair, each as a 400 with
\* the matching message key.
C11_AddValidationOrder ==
  (pc = "done" /\ JsonPost(TORRSERVER_ADD_PATH)) =>
     LET b == ctx.request.body
     IN  /\ MagnetRejected(b) => Rejected400("invalid_magnet")
         /\ (~MagnetRejected(b) /\ UrlMissing(b)) => Rejected400("missing_url")
         /\ (~MagnetRejected(b) /\ UrlMalformed(b)) => Rejected400("invalid_url")
         /\ (~MagnetRejected(b) /\ ~UrlMissing(b) /\ ~UrlMalformed(b) /\ PairIncomplete(b))
               => Rejected400("auth_credentials_mismatch")

\* C12: the test operation rejects an incomplete credential pair with
\* 400 auth_credentials_mismatch and sends no probe to the media server.
C12_TestRejectsCredentialMismatch ==
  (pc \in {"media", "done"} /\ JsonPost(TORRSERVER_TEST_PATH)
     /\ PairIncomplete(ctx.request.body))
    => (calls.media = 0 /\ (pc = "done" => Rejected400("auth_credentials_mismatch")))

\* ============================================================ pipeline ==
PERMITTED_METHODS == {"GET", "HEAD", "OPTIONS", "POST"}

\* The request in hand is one the method gate is for: a preflight or a
\* method outside the permitted list.
Gated == ctx # NoCtx /\ (ctx.request.method = "OPTIONS" \/ ctx.request.method \notin PERMITTED_METHODS)

\* The path is one the two asset stages claim before the gate is reached.
AssetPath == statsAssetHandles(ctx) \/ staticAssetHandles(ctx)

GateAnswered ==
  /\ AnsweredBy("methodAndCors")
  /\ calls = NoCalls /\ sent = NoUrl /\ pending = {}
  /\ IF ctx.request.method = "OPTIONS"
       THEN resp.status = 204 /\ resp.cors
       ELSE resp.status = 405 /\ resp.code = "method_not_allowed" /\ resp.allow

PIPELINE_STAGES ==
  {"statsAsset", "staticAsset", "methodAndCors", "torrserver", "confEndpoint", "upstream"}

\* C14: every inbound request is answered by one of the six stages, never by
\* the "Unhandled request" fallback, and a GET or HEAD on a path that is
\* neither an API path nor a direct-passthrough path is served from the
\* asset store.
C14_NeverUnhandled ==
  pc = "done" =>
    /\ resp.by \in PIPELINE_STAGES
    /\ (~ctx.isApi /\ ~ctx.direct /\ ctx.request.method \in {"GET", "HEAD"})
         => resp.source = "assets"

\* C15: a request under /api/torrserver/ whose method passed the gate is
\* answered by the media-bridge stage, never reaches the config-endpoint or
\* generic-proxy stage and is never forwarded to the origin.
C15_TorrserverSubtreeTerminal ==
  (ctx # NoCtx /\ StartsWith(ctx.pathname, TORRSERVER_PREFIX)
     /\ ctx.request.method \in {"GET", "HEAD", "POST"})
    => /\ ctx.stage = "torrserver"
       /\ calls.origin = 0 /\ calls.cacheMatch = 0
       /\ pc = "done" => resp.by = "torrserver"

\* C18: every response the worker returns carries the security headers
\* (nosniff, no-referrer, frame options, opener and resource policies,
\* permissions policy) and Access-Control-Allow-Origin: *.
C18_StandardHeadersOnEveryResponse ==
  (pc = "done" /\ resp.source # "runtime") => (resp.secure /\ resp.cors)

\* ================================================= origin-backed stages ==
\* The config endpoint and the generic proxy against an origin that may set
\* its own Cache-Control, answer with a non-JSON body, refuse, fail or time
\* out.
S_private == "private, max-age=0"

OriginRequests ==
  {Req(m, p, q, cc, Null, FALSE, NoBody) :
     m \in {"GET", "POST"}, p \in {S_api_conf, S_api_torrents},
     q \in {<< >>, <<Param("apikey", K_K1)>>, <<Param("apikey", K_WRONG)>>,
            <<Param("_", V_1), Param("apikey", K_K1)>>},
     cc \in {Null, T_no_store_uc}}

RichReplies ==
  {Reply(200, T_abc_q, Null, "json"),
   [Reply(200, Null, Null, "json") EXCEPT !.cacheControl = S_private],
   Reply(200, Null, Null, "text"),
   Reply(403, Null, Null, "text")}

InitOrigin == env \in {EnvOpen, EnvKeyed} /\ InitCommon

NextOrigin ==
  \/ ConfEndpoint(OriginRequests)
  \/ Upstream(OriginRequests)
  \/ OriginResponds(RichReplies)
  \/ OriginFails
  \/ OriginTimeout
  \/ CachePutCompletes
  \/ CachePutFails
  \/ CacheEvict
  \/ Respond

SpecOrigin == InitOrigin /\ [][NextOrigin]_vars

WrongKeySupplied ==
  ctx.apiKey.keyEnforced /\ Truthy(ctx.apiKey.suppliedKey) /\ ~ctx.apiKey.keyValid

\* C16: the config endpoint answers 403 exactly when enforcement is on and a
\* supplied key is not in the allow-list; otherwise it answers 200 with
\* requireApiKey equal to the enforcement flag, whatever the origin's config
\* fetch did (failed, timed out, non-2xx, non-JSON body).
C16_ConfStatusFromKeyVerdict ==
  AnsweredBy("confEndpoint") =>
    IF WrongKeySupplied
      THEN resp.status = 403 /\ calls.origin = 0
      ELSE resp.status = 200 /\ resp.requireApiKey = ctx.apiKey.keyEnforced

C16_Witness ==
  /\ AnsweredBy("confEndpoint")
  /\ ctx.apiKey.keyEnforced /\ NoKeySupplied
  /\ settled = "AbortError"
  /\ resp.status = 200 /\ resp.requireApiKey /\ resp.body = "conf"

ValidKeyGet200 ==
  /\ AnsweredBy("upstream")
  /\ ctx.request.method = "GET" /\ ctx.isApi
  /\ Truthy(ctx.apiKey.suppliedKey) /\ ctx.apiKey.keyValid
  /\ resp.status = 200

C17_WitnessHit ==
  /\ ValidKeyGet200
  /\ resp.source = "cache"
  /\ resp.cacheControl = DEFAULT_CACHE_CONTROL_OK

\* The request in hand went to the edge cache gateway and is one that must
\* bypass the cache: not a GET, or a Cache-Control request header that
\* contains no-cache or no-store.
BypassRequest ==
  /\ ctx # NoCtx
  /\ ctx.stage \in {"confEndpoint", "upstream"}
  /\ calls # NoCalls
  /\ \/ ctx.request.method # "GET"
     \/ \E d \in {S_no_cache, S_no_store} :
          Includes(ToLower(OrElse(ctx.request.cacheControl, << >>)), d)

\* C19: a request that bypasses the cache makes no cache lookup and hands no
\* write to the cache, so the cache gains nothing from it, and its response
\* never comes from a cached entry: the origin is fetched exactly once.
C19_BypassLeavesCacheAlone ==
  BypassRequest =>
    /\ calls.cacheMatch = 0 /\ calls.cachePut = 0 /\ pending = {}
    /\ calls.origin = 1
    /\ resp.source # "cache"

C19_Witness ==
  /\ BypassRequest /\ pc = "done"
  /\ ctx.request.method = "GET"
  /\ cacheMatch(cache, buildCacheKey(ctx.request, ctx.upstreamUrl)) # {}
  /\ resp.source = "origin" /\ resp.status = 200

\* The result a finished call must have: the path itself when it already
\* looks hashed, otherwise its entry in the manifest as loaded.
Resolved(i) ==
  IF LooksHashed(callers[i].path) THEN callers[i].path
  ELSE LookupHashed(state.map, callers[i].path)

Finished(i) == callers[i].at = "done"

\* C20: in every interleaving with the manifest load, calls to
\* resolveHashedPath with the same path return the same result (none
\* resolves against the map before it is loaded), so requests for the same
\* static path get the same effective path and the same Cache-Control.
C20_SamePathSameResult ==
  \A i \in 1..Len(callers) :
    Finished(i) =>
      /\ callers[i].result = Resolved(i)
      /\ ~LooksHashed(callers[i].path) => state.loaded
      /\ \A j \in 1..Len(callers) :
           (Finished(j) /\ callers[j].path = callers[i].path) =>
              /\ callers[j].result = callers[i].result
              /\ assetCacheControl(callers[j].result) = assetCacheControl(callers[i].result)

C20_Witness ==
  \E i, j \in 1..Len(callers) :
    /\ i # j /\ Finished(i) /\ Finished(j)
    /\ callers[i].path = S_css_app_js /\ callers[j].path = S_css_app_js
    /\ callers[i].result = S_css_app_hashed_js
    /\ \E k \in 1..Len(callers) : callers[k].at = "start"

\* ======================================================= pure functions ==
\* One call to a pure function of the worker: ctx holds the call (function
\* name and arguments), resp the value returned once the call has run.
K_k1_lc == <<"k","1">>   \* 'k1'
N_abc == <<"a","b","c">>   \* 'abc'
N_zero == <<"0">>   \* '0'
N_minus5 == <<"-","5">>   \* '-5'
N_5000 == <<"5","0","0","0">>   \* '5000'
N_12abc == <<"1","2","a","b","c">>   \* '12abc'
N_sp42 == <<" ","4","2">>   \* ' 42'
N_1_5 == <<"1",".","5">>   \* '1.5'
N_minus0 == <<"-","0">>   \* '-0'
S_api_conf_sl == <<"/","a","p","i","/","c","o","n","f","/">>   \* '/api/conf/'
S_api_confx == <<"/","a","p","i","/","c","o","n","f","x">>   \* '/api/confx'
S_api_torrents_x == <<"/","a","p","i","/","t","o","r","r","e","n","t","s","/","x">>   \* '/api/torrents/x'
S_api_stats == <<"/","a","p","i","/","s","t","a","t","s">>   \* '/api/stats'
S_api_stats_sl == <<"/","a","p","i","/","s","t","a","t","s","/">>   \* '/api/stats/'
S_api_statsx == <<"/","a","p","i","/","s","t","a","t","s","x">>   \* '/api/statsx'
S_api_unknown_thing == <<"/","a","p","i","/","u","n","k","n","o","w","n","/","t","h","i","n","g">>   \* '/api/unknown/thing'
S_api_v == <<"/","a","p","i","/","v">>   \* '/api/v'
S_api_sl == <<"/","a","p","i","/">>   \* '/api/'
A_main_hashed_js == <<"/","m","a","i","n",".","a","1","b","2","c","3","d","4","e","5",".","j","s">>   \* '/main.a1b2c3d4e5.js'
A_main_js == <<"/","m","a","i","n",".","j","s">>   \* '/main.js'
A_logo_png == <<"/","l","o","g","o",".","p","n","g">>   \* '/logo.png'
A_data_json == <<"/","d","a","t","a",".","j","s","o","n">>   \* '/data.json'
A_hashed_html == <<"/","a","p","p",".","a","b","c","d","e","f","1","2",".","h","t","m","l">>   \* '/app.abcdef12.html'
A_app_css == <<"/","c","s","s","/","a","p","p",".","c","s","s">>   \* '/css/app.css'
A_font_woff2 == <<"/","f",".","w","o","f","f","2">>   \* '/f.woff2'
A_font_woff == <<"/","f",".","w","o","f","f">>   \* '/f.woff'
A_LOGO_PNG_uc == <<"/","L","O","G","O",".","P","N","G">>   \* '/LOGO.PNG'
A_main_HASH_css == <<"/","m","a","i","n","-","A","B","C","D","E","F","1","2",".","c","s","s">>   \* '/main-ABCDEF12.css'
A_short_hash_js == <<"/","a","p","p",".","a","b","c","d","e","f","1",".","j","s">>   \* '/app.abcdef1.js'
A_hashed_png == <<"/","i","m","g","/","x",".","0","1","2","3","4","5","6","7","8","9",".","p","n","g">>   \* '/img/x.0123456789.png'
A_hash_tail == <<"/","f","i","l","e",".","a","b","c","d","e","f","1","2">>   \* '/file.abcdef12'
A_nonhex_js == <<"/","a","p","p",".","g","h","i","j","k","l","m","n",".","j","s">>   \* '/app.ghijklmn.js'
A_INDEX_HTML_uc == <<"/","I","N","D","E","X",".","H","T","M","L">>   \* '/INDEX.HTML'
A_hashed_noext == <<"/","v",".","a","b","c","d","e","f","1","2",".","b","i","n">>   \* '/v.abcdef12.bin'

NoResult == [returned |-> FALSE]

Returned(v) == [returned |-> TRUE, value |-> v]

ApiKeySettings == {Null, << >>, E_blank, E_comma, E_K1_K2, E_spaced}

ApiKeyParams ==
  {Param("apikey", K_K1), Param("apikey", K_WRONG), Param("apikey", << >>),
   Param("apikey", K_k1_lc), Param("api_key", K_K2), Param("api_key", << >>),
   Param("search", V_foo)}

ApiKeyQueries ==
  {<< >>} \cup {<<p>> : p \in ApiKeyParams} \cup {<<p, r>> : p, r \in ApiKeyParams}

TimeoutSettings ==
  {Null, << >>, N_abc, N_zero, N_minus5, N_5000, N_12abc, N_sp42, N_1_5, N_minus0}

MappedPaths ==
  {S_api_conf, S_api_conf_sl, S_api_confx, S_api_foo_conf, S_api_torrents, S_api_torrents_x,
   S_api_stats, S_api_stats_sl, S_api_stats_x, S_api_statsx, S_api_v2_bar, S_api_v,
   S_api_unknown_thing, S_api_sl, LOCAL_PREFIX, S_root, S_lastupdatedb, << >>}

AssetPaths ==
  {S_index_html, A_INDEX_HTML_uc, A_hashed_html, A_main_hashed_js, A_main_HASH_css, A_hashed_png,
   A_hashed_noext, A_main_js, A_app_css, A_short_hash_js, A_nonhex_js, A_logo_png, A_LOGO_PNG_uc,
   A_font_woff, A_font_woff2, S_favicon, A_data_json, A_hash_tail, S_root}

RemoteReplies ==
  {[kind |-> "response", error |-> "none", status |-> st, body |-> k] :
     st \in {200, 401, 403}, k \in MediaBodyKinds}

AddRequest(d) ==
  Req("POST", TORRSERVER_ADD_PATH, << >>, Null, Null, FALSE,
      JsonBody(M_magnet_sp, U_ok, Null, Null, d))

Calls ==
  {[fn |-> "parseApiKey", setting |-> e, query |-> q] : e \in ApiKeySettings, q \in ApiKeyQueries}
  \cup {[fn |-> "resolveConfig", upstream |-> u, torr |-> t] : u, t \in TimeoutSettings}
  \cup {[fn |-> "mapUpstreamPath", pathname |-> p] : p \in MappedPaths}
  \cup {[fn |-> "assetCacheControl", pathname |-> p] : p \in AssetPaths}
  \cup {[fn |-> "addSettled", debug |-> d, reply |-> o] : d \in BOOLEAN, o \in RemoteReplies}

InitPure ==
  /\ env = EnvOpen
  /\ cache = {}
  /\ state = [loaded |-> FALSE, loading |-> FALSE, map |-> {}]
  /\ ctx \in Calls
  /\ pc = "idle"
  /\ resp = NoResult
  /\ calls = NoCalls
  /\ sent = NoUrl
  /\ settled = "none"
  /\ attempts = << >>
  /\ pending = {}
  /\ callers = << >>
  /\ urls = << >>

Return(fn, v) ==
  /\ pc = "idle"
  /\ ctx.fn = fn
  /\ resp' = Returned(v)
  /\ pc' = "done"
  /\ UNCHANGED <<env, cache, state, ctx, calls, sent, settled, attempts, pending, callers, urls>>

\* apiKey.ts lines 20-30
ParseApiKey == ctx.fn = "parseApiKey" /\ Return("parseApiKey", parseApiKey(ctx.setting, ctx.query))

\* config.ts lines 14-24
ResolveConfig ==
  /\ ctx.fn = "resolveConfig"
  /\ Return("resolveConfig",
            resolveConfig([API_KEY |-> Null, UPSTREAM_TIMEOUT_MS |-> ctx.upstream,
                           TORRSERVER_TIMEOUT_MS |-> ctx.torr]))

\* routing.ts lines 56-64
MapUpstreamPath ==
  ctx.fn = "mapUpstreamPath" /\ Return("mapUpstreamPath", mapUpstreamPath(ctx.pathname))

\* assets.ts lines 14-22
AssetCacheControl ==
  ctx.fn = "assetCacheControl" /\ Return("assetCacheControl", assetCacheControl(ctx.pathname))

\* torrserver.ts lines 232-268: the add operation builds its answer from the
\* remote response
AddSettled ==
  /\ ctx.fn = "addSettled"
  /\ Return("addSettled", addSettled(Context(EnvOpen, AddRequest(ctx.debug)), ctx.reply).media)

NextPure ==
  \/ ParseApiKey
  \/ ResolveConfig
  \/ MapUpstreamPath
  \/ AssetCacheControl
  \/ AddSettled

SpecPure == InitPure /\ [][NextPure]_vars

Done(fn) == pc = "done" /\ ctx.fn = fn /\ resp.returned

\* --- parseApiKey
Setting(raw) == IF raw = Null THEN << >> ELSE raw

\* k is one of the comma-separated keys of the setting, blanks around each
\* key ignored and empty keys dropped
InAllowList(k, raw) ==
  /\ k # Null /\ k # << >>
  /\ \E i \in 1..Len(Split(Trim(Setting(raw)), ",")) : Trim(Split(Trim(Setting(raw)), ",")[i]) = k

FirstPresent(q) ==
  IF SearchHas(q, "apikey") THEN SearchGet(q, "apikey") ELSE SearchGet(q, "api_key")

FirstNonEmpty(q) ==
  IF Truthy(SearchGet(q, "apikey")) THEN SearchGet(q, "apikey")
  ELSE IF Truthy(SearchGet(q, "api_key")) THEN SearchGet(q, "api_key")
  ELSE Null

KeyVerdict(supplied) ==
  LET r == resp.value
  IN  /\ r.keyEnforced = (Trim(Setting(ctx.setting)) # << >>)
      /\ r.keyValid = (~r.keyEnforced \/ InAllowList(supplied, ctx.setting))

\* C21 as stated: enforcement is on exactly when the trimmed setting is
\* non-empty; the supplied key is the value of the first of apikey, api_key
\* that is present in the URL; isValid holds exactly when enforcement is off
\* or that key equals a member of the split, trimmed, empty-filtered list.
C21_ParseApiKeyFirstPresent ==
  Done("parseApiKey") =>
    /\ resp.value.suppliedKey = FirstPresent(ctx.query)
    /\ KeyVerdict(FirstPresent(ctx.query))

\* C21 (amended): the supplied key is the value of the first of apikey,
\* api_key that is present with a non-empty value (no key counts as supplied
\* when neither has one); enforcement and validity are as stated, with that
\* key.
C21_ParseApiKeyFirstNonEmpty ==
  Done("parseApiKey") =>
    /\ IF FirstNonEmpty(ctx.query) # Null
         THEN resp.value.suppliedKey = FirstNonEmpty(ctx.query)
         ELSE ~Truthy(resp.value.suppliedKey)
    /\ KeyVerdict(FirstNonEmpty(ctx.query))

C21_Witness ==
  /\ Done("parseApiKey")
  /\ ctx.setting = E_spaced
  /\ ctx.query = <<Param("apikey", << >>), Param("api_key", K_K2)>>
  /\ resp.value.keyEnforced /\ resp.value.keyValid /\ resp.value.suppliedKey = K_K2

\* --- resolveConfig
\* The setting is a decimal numeral of a strictly positive integer
PositiveNumeral(v) ==
  /\ v # Null /\ v # << >>
  /\ \A i \in 1..Len(v) : v[i] \in Digits
  /\ DecimalValue(v) > 0

\* The setting is absent, empty, zero, negative or has no leading number
Unusable(v) ==
  \/ v = Null \/ v = << >>
  \/ parseInt(v).nan
  \/ parseInt(v).n <= 0

Timeout(actual, setting, dflt) ==
  /\ actual \in Nat /\ actual > 0
  /\ Unusable(setting) => actual = dflt
  /\ PositiveNumeral(setting) => actual = DecimalValue(setting)

\* C22: resolveConfig returns strictly positive integer timeouts: the
\* default (30000, 15000) for an absent, empty, non-numeric, zero or negative
\* setting, and a valid positive integer as given.
C22_TimeoutsPositive ==
  Done("resolveConfig") =>
    /\ Timeout(resp.value.upstreamTimeoutMs, ctx.upstream, DEFAULT_UPSTREAM_TIMEOUT_MS)
    /\ Timeout(resp.value.torrTimeoutMs, ctx.torr, DEFAULT_TORRSERVER_TIMEOUT_MS)

\* --- mapUpstreamPath
IsPath(v) == v \in Seq({v[i] : i \in 1..Len(v)})

OrSlash(p) == {p, p \o <<"/">>}

\* The rules in their order, on the whole path: the config sub-path, the
\* search sub-path (a prefix), the stats root, a path under the stats root;
\* every other API path maps to itself.
ExpectedUpstreamPath(p) ==
  IF p \in OrSlash(S_api_conf) THEN S_api_v1_conf
  ELSE IF StartsWith(p, S_api_torrents) THEN S_api_v1_torrents
  ELSE IF p \in OrSlash(S_api_stats) THEN S_stats
  ELSE IF StartsWith(p, S_api_stats_sl) THEN Substring(p, Len(LOCAL_PREFIX))
  ELSE p

\* C23: mapUpstreamPath returns a string for every input path, and for an
\* API path the string chosen by the first matching rule: /api/v1.0/conf for
\* /api/conf, /api/v1.0/torrents for the search sub-path, /stats for
\* /api/stats, the path without /api for /api/stats/<rest>, and the path
\* itself otherwise, /api/v<digit>... included.
C23_MapUpstreamPathRules ==
  Done("mapUpstreamPath") =>
    /\ IsPath(resp.value)
    /\ StartsWith(ctx.pathname, LOCAL_PREFIX) => resp.value = ExpectedUpstreamPath(ctx.pathname)

C23_Witness ==
  /\ Done("mapUpstreamPath")
  /\ ctx.pathname = S_api_stats_x
  /\ resp.value = S_stats_x

\* --- assetCacheControl
LowerPath == ToLower(ctx.pathname)

HasExt(exts) == \E x \in exts : EndsWith(LowerPath, x)

\* A separator, eight or more hex digits, a dot
HasContentHash ==
  \E i, j \in 1..Len(LowerPath) :
    /\ j - i >= 9
    /\ LowerPath[i] \in {".", "-"} /\ LowerPath[j] = "."
    /\ \A k \in (i + 1)..(j - 1) : LowerPath[k] \in HexLower

\* C24: assetCacheControl applies the first matching rule in the order
\* .html, content hash, .css or .js, media or font extension, anything else.
C24_AssetCacheControlOrder ==
  Done("assetCacheControl") =>
    resp.value =
      IF HasExt({S_dot_html}) THEN "no-cache, must-revalidate"
      ELSE IF HasContentHash THEN "public, max-age=31536000, immutable"
      ELSE IF HasExt({S_dot_css, S_dot_js}) THEN "public, max-age=3600"
      ELSE IF HasExt(MEDIA_EXTS) THEN "public, max-age=604800"
      ELSE "public, max-age=300"

C24_Witness ==
  /\ Done("assetCacheControl")
  /\ ctx.pathname = A_hashed_html
  /\ HasContentHash
  /\ resp.value = "no-cache, must-revalidate"

\* ======================================================== cache entries ==
\* An entry as cachedFetch stores it on a miss
StoredAsSpecified(e) ==
  /\ IsOk(e.status)
  /\ e.cacheControl = "public, max-age=60, s-maxage=300"
  /\ e.key.method = "GET"
  /\ \A i \in 1..Len(e.key.query) : e.key.query[i].name \notin {"apikey", "api_key", "_"}

\* The request in hand handed a write to the cache
WroteCache == ctx # NoCtx /\ calls.cachePut > 0

\* C25: every entry in the edge cache, and every write on its way there, is
\* a 2xx response under a normalized key with Cache-Control
\* "public, max-age=60, s-maxage=300", written by a GET request without
\* no-cache/no-store that missed the cache; a non-2xx origin response is
\* returned to the caller and not stored.
C25_CacheHoldsOnlyOkMisses ==
  /\ \A e \in cache \cup pending : StoredAsSpecified(e)
  /\ WroteCache =>
       /\ ctx.request.method = "GET"
       /\ ~NoCacheRe(OrElse(ctx.request.cacheControl, << >>))
       /\ calls.cacheMatch = 1 /\ calls.origin = 1 /\ calls.cachePut = 1
       /\ settled = "response"
  /\ (AnsweredBy("upstream") /\ resp.source = "origin" /\ ~IsOk(resp.status)) =>
       (calls.cachePut = 0 /\ pending = {} /\ resp.status = 403)

C25_Witness ==
  /\ cache # {}
  /\ AnsweredBy("upstream") /\ resp.source = "origin" /\ resp.status = 403
  /\ calls.cacheMatch = 1

\* ========================================================== cache write ==
\* The request in hand missed the cache and the origin answered 2xx
OkMiss ==
  /\ ctx # NoCtx /\ pc = "done"
  /\ ctx.stage \in {"confEndpoint", "upstream"}
  /\ calls.cacheMatch = 1 /\ calls.origin = 1
  /\ settled = "response"
  /\ IF ctx.stage = "upstream" THEN IsOk(resp.status) ELSE resp.body = "conf+origin"

\* C26: on a miss with a 2xx origin response the write is handed to the
\* host (registered, not dropped), the response can be returned whether or
\* not the write has settled, and whatever became of the write (still
\* pending, stored, failed) the response is the origin's, unchanged.
C26_ResponseIndependentOfCacheWrite ==
  /\ pc = "done" => ENABLED Respond
  /\ WroteCache => /\ pc = "done"
                   /\ ctx.stage = "upstream" => resp.source = "origin"
                   /\ resp.status \in 200..299
                   /\ resp.cfCacheStatus = NoH
  /\ OkMiss => calls.cachePut = 1

C26_Witness ==
  /\ pc = "idle"
  /\ pending # {}
  /\ ctx = NoCtx

\* ======================================================= manifest load ==
\* A load that left the map empty: non-OK response, unparsable body, throw
LoadedEmpty == state.loaded /\ state.map = {}

PassThrough == \A i \in 1..Len(callers) : Finished(i) => callers[i].result = callers[i].path

LoadIsFinal ==
  /\ (state.loading /\ ~state'.loading) => state'.loaded
  /\ state.loaded => (state' = state /\ calls'.manifest = calls.manifest)
  /\ LoadedEmpty' => PassThrough'

\* C27: when a manifest load finishes, whatever its outcome, the manifest is
\* marked loaded; from then on the load state never changes and no call
\* issues another manifest fetch; after a load that failed every finished
\* lookup has returned its input path.
C27_LoadHappensOnce == [][LoadIsFinal]_vars

C27_Witness ==
  /\ LoadedEmpty /\ calls.manifest = 1
  /\ \E i, j \in 1..Len(callers) :
       /\ callers[i].at = "done" /\ callers[i].path = S_css_app_js
       /\ callers[i].result = S_css_app_js
       /\ callers[j].at = "start" /\ ~LooksHashed(callers[j].path)

\* ================================================ access-control verdict ==
\* C28: the config-endpoint stage takes a request only when its path is
\* /api/conf, with or without a trailing slash.
C28_ConfStageOnlyOnConfPath ==
  (ctx # NoCtx /\ ctx.stage = "confEndpoint") => ctx.pathname \in OrSlash(S_api_conf)

\* The verdict the add operation reports for the same remote response to the
\* twin request with the other debug flag
TwinVerdict ==
  addSettled(Context(EnvOpen, AddRequest(~ctx.debug)), ctx.reply).media.cloudflareAccess

\* The remote body carries the rejection signature
HasSignature(k) == k \in {"json_cf", "text_cf"}

\* C29: the add operation's cloudflareAccess depends on the remote status
\* and body only: it is the same with and without debug, and a 403 whose
\* body carries the rejection signature is flagged.
C29_VerdictIgnoresDebug ==
  Done("addSettled") =>
    /\ resp.value.cloudflareAccess = TwinVerdict
    /\ (ctx.reply.status = 403 /\ HasSignature(ctx.reply.body)) => resp.value.cloudflareAccess

\* C30: a non-2xx response from the asset store never reaches the caller
\* with Cache-Control "public, max-age=31536000, immutable".
C30_NoImmutableOnAssetError ==
  (pc = "done" /\ resp.source = "assets" /\ ~IsOk(resp.status))
    => resp.cacheControl # "public, max-age=31536000, immutable"

=============================================================================
